---- MODULE Spec2Model ----
(***************************************************************************)
(* Capacity-constrained partnership simulation of run_simulation.py:       *)
(* ProductionCapacity, CapacityTracker, the producer-side allocation       *)
(* policy (_macron_capacity_allocation, _allocate_products_to_brand), the  *)
(* brand-side demand estimate and the monthly loop of                      *)
(* SingleModelSimulation.run_single_simulation.                            *)
(*                                                                         *)
(* Fractions are kept as integer percentages; int(x * f) of the source is  *)
(* (x * pct) \div 100, which agrees with the double arithmetic for every   *)
(* factor used here (0.2, 0.3, 0.4, 0.5, 0.8, 1.2, 1.3).                   *)
(***************************************************************************)
EXTENDS Integers, Sequences, FiniteSets, TLC

(***************************************************************************)
(* Bounds of the model                                                     *)
(***************************************************************************)
\* config.simulation_years (5 in the default configuration)
SimulationYears == 2
\* renewals explored within one month's expiry loop (in the final month a
\* renewed deal ends in the month of its renewal and is visited by the same
\* loop, so the number of renewals in that loop has no limit)
MaxRenewalsPerMonth == 1
\* brands of the crowded trial whose evaluation fails within one month
MaxDeclinesPerMonth == 1
\* shocks of a schedule that is chosen freely (the program draws up to
\* max_shocks_per_simulation of them)
MaxShocks == 2

(***************************************************************************)
(* Program constants                                                       *)
(***************************************************************************)
MonthsPerYear == 12
max_shocks_per_simulation == 4
NewModelAllocationPct == 50
DefaultSharePct == 30
MaxAllocationRatioPct == 20
CoBrandedModelCap == 50000
WhiteLabelModelCap == 100000
BoostThreshold == 15000
BoostPct == 130
MinViableOrder == 1000
MinDemandUnits == 1000
MaxUnitsPerProduct == 200000
MinUnitsPerProduct == 2000
MaxProductsPerDeal == 4
TechnicalCobrandedLimit == 20
MidLuxuryCobrandedLimit == 25
HighVolumeOverride == 20000
HighRevenueMillions == 100
StrongLeaderScore == 60

Models == {"co-branded", "white-label"}

Min2(a, b) == IF a <= b THEN a ELSE b
Max2(a, b) == IF a >= b THEN a ELSE b

RECURSIVE SumSeq(_)
SumSeq(s) == IF s = <<>> THEN 0 ELSE Head(s) + SumSeq(Tail(s))

(***************************************************************************)
(* Static inputs of a trial: the cost table (product -> complexity tier)   *)
(* and the brand profiles.                                                 *)
(***************************************************************************)
\* the brand profiles loaded at construction, in iteration order: two large
\* brands and a crowd of small technical brands.  market_leader_score is in
\* hundredths, annual_revenue_millions in millions.
CrowdNames ==
    << "Crowd01", "Crowd02", "Crowd03", "Crowd04", "Crowd05", "Crowd06",
       "Crowd07", "Crowd08", "Crowd09", "Crowd10", "Crowd11", "Crowd12",
       "Crowd13", "Crowd14", "Crowd15", "Crowd16", "Crowd17", "Crowd18",
       "Crowd19", "Crowd20", "Crowd21" >>

BrandProfiles ==
    << [brand_name |-> "TechCo", segment_id |-> <<1>>,
        annual_revenue_millions |-> 50, avg_price_index |-> 100,
        market_leader_score |-> 30],
       [brand_name |-> "LuxCo", segment_id |-> <<7>>,
        annual_revenue_millions |-> 2000, avg_price_index |-> 1333,
        market_leader_score |-> 50] >>
    \o [k \in 1..Len(CrowdNames) |->
           [brand_name |-> CrowdNames[k], segment_id |-> <<1>>,
            annual_revenue_millions |-> 1, avg_price_index |-> 100,
            market_leader_score |-> 10]]

\* the configurations explored: ProductionCapacity.total_annual_capacity,
\* config.simulation_years, the complexity and variable_cost columns of the
\* cost table and the decision_speed each BrandAgent drew at construction (in
\* hundredths)
Configurations ==
    { [total_annual_capacity |-> 0, simulation_years |-> 1,
       product_complexity |-> << "Very High", "High" >>,
       variable_cost |-> << 12, 24 >>,
       decision_speed |-> << 15, 40 >>],
      [total_annual_capacity |-> 20000, simulation_years |-> SimulationYears,
       product_complexity |-> << "Very High", "High" >>,
       variable_cost |-> << 12, 24 >>,
       decision_speed |-> << 15, 40 >>],
      [total_annual_capacity |-> 20000, simulation_years |-> 1,
       product_complexity |-> << "Low", "Low", "Low", "Low", "Low" >>,
       variable_cost |-> << 12, 12, 0, 12, 12 >>,
       decision_speed |-> << 15, 15 >>],
      [total_annual_capacity |-> 40000, simulation_years |-> 1,
       product_complexity |-> << "Extreme" >>,
       variable_cost |-> << 12 >>,
       decision_speed |-> << 15, 15 >>] }


PrimarySegment(brand) ==
    IF brand.segment_id # <<>> THEN brand.segment_id[1] ELSE 3

(***************************************************************************)
(* ProductionCapacity                                                      *)
(***************************************************************************)
\* the keys of complexity_max_share
ComplexityTiers == {"Low", "Medium", "High", "Very High"}

complexity_max_share(complexity) ==
    CASE complexity = "Low" -> 50
      [] complexity = "Medium" -> 40
      [] complexity = "High" -> 30
      [] complexity = "Very High" -> 20
      [] OTHER -> DefaultSharePct

get_available_capacity(total_annual_capacity) ==
    (total_annual_capacity * NewModelAllocationPct) \div 100

\* faulty variant: the share is taken of the whole capacity, not of the pool
get_product_capacity_of_total(total_annual_capacity, complexity) ==
    (total_annual_capacity * complexity_max_share(complexity)) \div 100

get_product_capacity(total_annual_capacity, complexity) ==
    (get_available_capacity(total_annual_capacity)
        * complexity_max_share(complexity)) \div 100

(***************************************************************************)
(* CapacityTracker                                                         *)
(***************************************************************************)
initialize_annual_capacity(complexities, total_annual_capacity) ==
    [p \in 1..Len(complexities) |->
        get_product_capacity(total_annual_capacity, complexities[p])]

commit_capacity(committed, product, units) ==
    [committed EXCEPT ![product] = committed[product] + units]

\* faulty variant: nothing is released
release_capacity_nothing(committed, product, units) == committed

\* faulty variant: the release forgets what other deals hold
release_capacity_reset(committed, product, units) ==
    [committed EXCEPT ![product] = 0]

release_capacity(committed, product, units) ==
    [committed EXCEPT ![product] = Max2(0, committed[product] - units)]

\* the loops "for product, units in allocation.items(): commit/release"
RECURSIVE CommitAll(_, _, _)
CommitAll(committed, allocation, p) ==
    IF p > Len(allocation) THEN committed
    ELSE CommitAll(IF allocation[p] > 0
                     THEN commit_capacity(committed, p, allocation[p])
                     ELSE committed,
                   allocation, p + 1)

RECURSIVE ReleaseAll(_, _, _)
ReleaseAll(committed, allocation, p) ==
    IF p > Len(allocation) THEN committed
    ELSE ReleaseAll(IF allocation[p] > 0
                      THEN release_capacity(committed, p, allocation[p])
                      ELSE committed,
                    allocation, p + 1)

(***************************************************************************)
(* Demand Estimator: _calculate_brand_demand.  jitter is the outcome of    *)
(* random.uniform(0.8, 1.2) as a percentage.                               *)
(***************************************************************************)
JitterChoices == {80, 120}

segment_adjustments(segment) ==
    CASE segment = 1 -> 100
      [] segment = 2 -> 100
      [] segment = 3 -> 90
      [] segment = 4 -> 70
      [] segment = 5 -> 60
      [] segment = 6 -> 50
      [] segment = 7 -> 40
      [] OTHER -> 80

base_demand_permyriad(model) ==
    IF model = "co-branded" THEN 100 ELSE 150

calculate_brand_demand(brand, model, jitter) ==
    LET base_units == (brand.annual_revenue_millions * 100
                          * base_demand_permyriad(model))
                      \div brand.avg_price_index
        adjusted_units ==
            (base_units * segment_adjustments(PrimarySegment(brand))) \div 100
        final_units == (adjusted_units * jitter) \div 100
    IN  Min2(Max2(MinDemandUnits, final_units), MaxUnitsPerProduct)

(***************************************************************************)
(* Allocation Policy: _allocate_products_to_brand and                      *)
(* _macron_capacity_allocation.  An allocation is a function from products *)
(* to units, 0 standing for "product not in the dict".                     *)
(***************************************************************************)
\* outcomes of random.uniform(0.2, 0.5), as percentages
SplitChoices == {20, 50}

\* outcomes of random.randint(1, min(4, len(product_list))) explored
PickCounts == {1, 2}

\* the random draw of _allocate_products_to_brand: the selected products
\* (random.choices draws with replacement) and one split per product
Selections(n_products_total) ==
    UNION { [1..k -> 1..n_products_total] :
              k \in PickCounts \cap 1..Min2(MaxProductsPerDeal, n_products_total) }

Splits(k) == [1..k -> SplitChoices]

RECURSIVE Distribute(_, _, _, _, _)
Distribute(selected_products, splits, i, remaining_units, allocation) ==
    IF i > Len(selected_products) THEN allocation
    ELSE IF i = Len(selected_products)
         THEN [allocation EXCEPT ![selected_products[i]] = remaining_units]
         ELSE LET units == (remaining_units * splits[i]) \div 100
              IN  Distribute(selected_products, splits, i + 1,
                             remaining_units - units,
                             [allocation EXCEPT ![selected_products[i]] = units])

allocate_products_to_brand(n_products_total, total_units, selected_products, splits) ==
    Distribute(selected_products, splits, 1, total_units,
               [p \in 1..n_products_total |-> 0])

segment_priority(model, segment) ==
    IF model = "co-branded"
    THEN CASE segment = 7 -> 20
           [] segment = 6 -> 18
           [] segment = 5 -> 15
           [] segment = 4 -> 12
           [] segment = 3 -> 10
           [] segment = 2 -> 9
           [] segment = 1 -> 8
           [] OTHER -> 10
    ELSE CASE segment = 1 -> 15
           [] segment = 2 -> 14
           [] segment = 3 -> 13
           [] segment = 4 -> 10
           [] segment = 5 -> 8
           [] segment = 6 -> 6
           [] segment = 7 -> 4
           [] OTHER -> 10

\* priority_score, in ten-thousandths
priority_score(brand, model) ==
    Min2(brand.annual_revenue_millions, 2000) * 3
    + segment_priority(model, PrimarySegment(brand)) * 400
    + brand.market_leader_score * 30

\* faulty variant: every model gets the white-label cap
model_cap_of_white_label(model) == WhiteLabelModelCap

model_cap(model) ==
    IF model = "co-branded" THEN CoBrandedModelCap ELSE WhiteLabelModelCap

product_availability(complexities, total_annual_capacity, committed) ==
    [p \in 1..Len(complexities) |->
        get_product_capacity(total_annual_capacity, complexities[p]) - committed[p]]

\* faulty variant: the 20% anti-monopolization cap is left out
allocated_units_without_cap(brand, desired_units, model, total_available) ==
    LET capped == Min2(desired_units, model_cap(model))
    IN  IF priority_score(brand, model) > BoostThreshold
        THEN (capped * BoostPct) \div 100
        ELSE capped

\* faulty variant: the brand's request is left out of the minimum
allocated_units_without_request(brand, desired_units, model, total_available) ==
    LET capacity_cap == (total_available * MaxAllocationRatioPct) \div 100
        capped == Min2(capacity_cap, model_cap(model))
    IN  IF priority_score(brand, model) > BoostThreshold
        THEN (capped * BoostPct) \div 100
        ELSE capped

\* the grant before it is distributed over products (0: rejected)
allocated_units(brand, desired_units, model, total_available) ==
    LET capacity_cap == (total_available * MaxAllocationRatioPct) \div 100
        capped == Min2(desired_units, Min2(capacity_cap, model_cap(model)))
    IN  IF priority_score(brand, model) > BoostThreshold
        THEN (capped * BoostPct) \div 100
        ELSE capped

\* faulty variant: the slices are not checked against the availability
final_allocation_unclipped(product_allocation, availability) ==
    product_allocation

\* "Verify we can actually fulfill this allocation"
final_allocation(product_allocation, availability) ==
    [p \in DOMAIN product_allocation |->
        IF product_allocation[p] = 0 THEN 0
        ELSE IF availability[p] >= product_allocation[p] THEN product_allocation[p]
        ELSE IF availability[p] >= MinViableOrder THEN availability[p]
        ELSE 0]

NoAllocation(n_products_total) == [p \in 1..n_products_total |-> 0]

\* faulty variant: the grant is not checked again after the clipping
macron_capacity_allocation_keeping_small(brand, desired_units, model, complexities, total_capacity, committed, selected_products, splits) ==
    LET n == Len(complexities)
        availability == product_availability(complexities, total_capacity, committed)
        total_available == SumSeq(availability)
        units == allocated_units(brand, desired_units, model, total_available)
        product_allocation ==
            allocate_products_to_brand(n, units, selected_products, splits)
        final == final_allocation(product_allocation, availability)
        rejected == [units |-> 0, allocation |-> NoAllocation(n),
                     total_available |-> total_available]
    IN  IF total_available = 0 THEN rejected
        ELSE IF units < MinViableOrder THEN rejected
        ELSE [units |-> SumSeq(final), allocation |-> final,
              total_available |-> total_available]

\* faulty variant: the policy never looks at the capacity tracker
macron_capacity_allocation_unchecked(brand, desired_units, model, complexities, total_capacity, committed, selected_products, splits) ==
    LET n == Len(complexities)
        capped == Min2(desired_units, model_cap(model))
        units == IF priority_score(brand, model) > BoostThreshold
                 THEN (capped * BoostPct) \div 100
                 ELSE capped
        product_allocation ==
            allocate_products_to_brand(n, units, selected_products, splits)
    IN  IF units < MinViableOrder
        THEN [units |-> 0, allocation |-> NoAllocation(n), total_available |-> 0]
        ELSE [units |-> SumSeq(product_allocation),
              allocation |-> product_allocation, total_available |-> 0]

macron_capacity_allocation(brand, desired_units, model, complexities, total_capacity, committed, selected_products, splits) ==
    LET n == Len(complexities)
        availability == product_availability(complexities, total_capacity, committed)
        total_available == SumSeq(availability)
        units == allocated_units(brand, desired_units, model, total_available)
        product_allocation ==
            allocate_products_to_brand(n, units, selected_products, splits)
        final == final_allocation(product_allocation, availability)
        total_allocated == SumSeq(final)
        rejected == [units |-> 0, allocation |-> NoAllocation(n),
                     total_available |-> total_available]
    IN  IF total_available = 0 THEN rejected
        ELSE IF units < MinViableOrder THEN rejected
        ELSE IF total_allocated < MinViableOrder THEN rejected
        ELSE [units |-> total_allocated, allocation |-> final,
              total_available |-> total_available]

(***************************************************************************)
(* Producer's strategic acceptance (co-branded only).  coin1 and coin2 are *)
(* the outcomes of the two random.random() comparisons.                    *)
(***************************************************************************)
macron_accepts(brand, model, units, cobranded_count, coin1, coin2) ==
    IF model # "co-branded" THEN TRUE
    ELSE LET segment == PrimarySegment(brand)
             first ==
               IF segment \in {1, 2, 3}
               THEN ~(cobranded_count >= TechnicalCobrandedLimit
                      /\ (brand.annual_revenue_millions < HighRevenueMillions \/ coin1))
               ELSE IF segment \in {4, 5}
               THEN ~(cobranded_count >= MidLuxuryCobrandedLimit
                      /\ (brand.market_leader_score < StrongLeaderScore \/ coin1))
               ELSE TRUE
         IN  first \/ (units > HighVolumeOverride /\ coin2)

(***************************************************************************)
(* Pricing Engine: _calculate_pricing.  Prices and money amounts are in    *)
(* ten-thousandths of the currency unit, market_leader_score in            *)
(* hundredths, so that every markup of the source is a whole number; the   *)
(* volume discounts (0.95, 0.97) round down to the next ten-thousandth.    *)
(***************************************************************************)
segment_premiums(segment) ==
    CASE segment = 1 -> 0
      [] segment = 2 -> 200
      [] segment = 3 -> 300
      [] segment = 4 -> 500
      [] segment = 5 -> 700
      [] segment = 6 -> 1000
      [] segment = 7 -> 1200
      [] OTHER -> 300

\* co-branded markup in ten-thousandths, before the volume discount
cobranded_markup(brand) ==
    10000 + 2800 + 6 * brand.market_leader_score
    + segment_premiums(PrimarySegment(brand)) + 300

\* white-label volume_adjustment in ten-thousandths
volume_adjustment(units) ==
    IF units < 5000 THEN 0
    ELSE IF units < 10000 THEN 0 - 200
    ELSE IF units < 25000 THEN 0 - 500
    ELSE 0 - 800

\* faulty variant: the markups leave out the "1 +" of the cost itself
calculate_pricing_margin_only(costs, product, units, model, brand) ==
    LET base_cost == costs[product]
    IN  IF model = "co-branded"
        THEN base_cost * (cobranded_markup(brand) - 10000)
        ELSE base_cost * (1400 + volume_adjustment(units))

calculate_pricing(costs, product, units, model, brand) ==
    LET base_cost == costs[product]
    IN  IF model = "co-branded"
        THEN LET total_markup == cobranded_markup(brand)
             IN  IF units > 30000 THEN (base_cost * total_markup * 95) \div 100
                 ELSE IF units > 20000 THEN (base_cost * total_markup * 97) \div 100
                 ELSE base_cost * total_markup
        ELSE base_cost * (10000 + 1400 + volume_adjustment(units))

\* the loop "for product, units in product_allocation.items()" that fills
\* deal_products and sums monthly_revenue and monthly_profit
RECURSIVE FinancialsFrom(_, _, _, _, _)
\* faulty variant: the cost of goods is added instead of subtracted
FinancialsAddingCost(costs, allocation, model, brand, p) ==
    IF p > Len(allocation) THEN [monthly_revenue |-> 0, monthly_profit |-> 0]
    ELSE LET rest == FinancialsFrom(costs, allocation, model, brand, p + 1)
             units == allocation[p]
             price == calculate_pricing(costs, p, units, model, brand)
             annual_revenue == price * units
             annual_cogp == costs[p] * 10000 * units
             annual_profit == annual_revenue + annual_cogp
         IN  IF units = 0 THEN rest
             ELSE [monthly_revenue |-> rest.monthly_revenue + annual_revenue \div 12,
                   monthly_profit |-> rest.monthly_profit + annual_profit \div 12]

FinancialsFrom(costs, allocation, model, brand, p) ==
    IF p > Len(allocation) THEN [monthly_revenue |-> 0, monthly_profit |-> 0]
    ELSE LET rest == FinancialsFrom(costs, allocation, model, brand, p + 1)
             units == allocation[p]
             price == calculate_pricing(costs, p, units, model, brand)
             annual_revenue == price * units
             annual_cogp == costs[p] * 10000 * units
             annual_profit == annual_revenue - annual_cogp
         IN  IF units = 0 THEN rest
             ELSE [monthly_revenue |-> rest.monthly_revenue + annual_revenue \div 12,
                   monthly_profit |-> rest.monthly_profit + annual_profit \div 12]

(***************************************************************************)
(* State of one trial (run_single_simulation)                              *)
(***************************************************************************)
VARIABLES
    model,                          \* the model variant of the trial
    total_annual_capacity,          \* config.production_capacity
    simulation_years,               \* config.simulation_years
    product_complexity,             \* cost table: product -> complexity tier
    product_costs,                  \* cost table: product -> variable_cost
    decision_speed,                 \* brand -> BrandAgent.decision_speed
    annual_capacity,                \* capacity_tracker.annual_capacity
    committed_capacity,             \* capacity_tracker.committed_capacity
    month,                          \* loop variable of the main loop
    pc,                             \* position inside the month
    market_updates,                 \* calls of market_manager.update_market_state
    market_shocks,                  \* the shocks generated for the trial, by month
    shock_index,                    \* shocks of market_shocks applied so far
    shocks_applied,                 \* the calls of apply_market_shock, in order
    months_accrued,                 \* months whose revenue has been accrued
    month_revenue,                  \* monthly_revenues[m - 1], m the last month accrued
    month_profit,                   \* monthly_profits[m - 1], m the last month accrued
    active_partnerships,            \* list of PartnershipDeal
    expiry_index,                   \* position of the expiry loop
    partnerships_to_remove,         \* indices collected by the expiry loop
    brand_index,                    \* position of the proposal loop
    blocked_brands,
    partner_brands,
    partnerships_formed,
    partnerships_rejected_capacity,
    active_cobranded_count,
    alloc_call,                     \* the allocation call made by the last step
    n_simulations,                  \* config.n_simulations
    base_seed,                      \* config.base_seed
    driver_pc,                      \* position inside run_simulation
    runs_started,                   \* calls of run_simulation so far
    model_index,                    \* position of "for model in [...]"
    simulation_id,                  \* loop variable i of the trial loop
    results_count,                  \* model -> len(results[model])
    random_state,                   \* state of the random module (numpy.random is
                                    \* seeded alongside it and moves only the market)
    drawn,                          \* the draws taken for the step at hand
    first_outcome,                  \* what each (model, simulation_id) returned first
    function_input,                 \* arguments of a function called on its own
    function_output                 \* what that call returned

vars == << model, total_annual_capacity, simulation_years, product_complexity,
           product_costs, decision_speed, annual_capacity,
           committed_capacity, month, pc, market_updates, market_shocks,
           shock_index, shocks_applied, months_accrued,
           month_revenue, month_profit,
           active_partnerships, expiry_index, partnerships_to_remove, brand_index, blocked_brands,
           partner_brands, partnerships_formed, partnerships_rejected_capacity,
           active_cobranded_count, alloc_call, n_simulations, base_seed,
           driver_pc, runs_started, model_index, simulation_id, results_count,
           random_state, drawn, first_outcome, function_input,
           function_output >>

total_months == simulation_years * MonthsPerYear

\* self.brand_agents: the profiles of the brands taking part, one per entry
\* of decision_speed
brand_agents == SubSeq(BrandProfiles, 1, Len(decision_speed))

BrandIds == 1..Len(brand_agents)

product_list == 1..Len(product_complexity)

\* outcomes of random.randint(1, 3) * 12
DurationChoices == {12, 24, 36}

decision_frequency(speed) == 300 \div (speed + 10)

NoCall ==
    [caller |-> "none", brand_name |-> "", desired_units |-> 0, units |-> 0,
     allocation |-> <<>>, availability |-> <<>>]

Call(caller, brand, desired_units, result, availability) ==
    [caller |-> caller, brand_name |-> brand.brand_name,
     desired_units |-> desired_units, units |-> result.units,
     allocation |-> result.allocation, availability |-> availability]

\* a generator that was never seeded by the program, and one seeded with
\* seed whose next output is the one at position
Unseeded == [seed |-> 0 - 1, position |-> 0]

Seeded(seed) == [seed |-> seed, position |-> 0]

NoDraws == [key |-> <<>>, values |-> <<>>]

NoFunction == [function |-> "none"]

NotReturned == [returned |-> FALSE]

ShockRecord(shock_month, k) == [month |-> shock_month, draw |-> k]

\* "shocks.append({...})" for each shock_month drawn, in the order drawn
drawn_shocks(months_drawn) ==
    [k \in 1..Len(months_drawn) |-> ShockRecord(months_drawn[k], k)]

\* list.sort is stable: a shock goes behind those of the same month
RECURSIVE insert_by_month(_, _)
insert_by_month(sorted, shock) ==
    IF sorted = <<>> THEN << shock >>
    ELSE IF Head(sorted).month <= shock.month
         THEN << Head(sorted) >> \o insert_by_month(Tail(sorted), shock)
         ELSE << shock >> \o sorted

RECURSIVE sort_by_month(_)
sort_by_month(shocks) ==
    IF shocks = <<>> THEN <<>>
    ELSE insert_by_month(sort_by_month(SubSeq(shocks, 1, Len(shocks) - 1)),
                         shocks[Len(shocks)])

\* faulty variant: the schedule is returned in the order it was drawn
generated_shocks_unsorted(months_drawn) == drawn_shocks(months_drawn)

\* what _generate_market_shocks returns for the months it has drawn
generated_shocks(months_drawn) == sort_by_month(drawn_shocks(months_drawn))

\* "while shock_index < len(market_shocks) and
\*        market_shocks[shock_index]['month'] <= month": the index it ends with
RECURSIVE shocks_due(_, _, _)
shocks_due(shocks, index, m) ==
    IF index < Len(shocks) /\ shocks[index + 1].month <= m
    THEN shocks_due(shocks, index + 1, m)
    ELSE index

\* the calls of apply_market_shock made by that loop
applied_now(shocks, index, last, m, updates) ==
    [k \in 1..(last - index) |->
        [shock |-> shocks[index + k], month |-> m, market_updates |-> updates]]

Init ==
    /\ model \in Models
    /\ \E config \in Configurations :
          /\ total_annual_capacity = config.total_annual_capacity
          /\ simulation_years = config.simulation_years
          /\ product_complexity = config.product_complexity
          /\ product_costs = config.variable_cost
          /\ decision_speed = config.decision_speed
    /\ annual_capacity =
           initialize_annual_capacity(product_complexity, total_annual_capacity)
    /\ committed_capacity = [p \in 1..Len(product_complexity) |-> 0]
    /\ month = 1
    /\ pc = "market"
    /\ market_updates = 0
    /\ market_shocks = <<>>        \* "n_shocks" was drawn as 0
    /\ shock_index = 0
    /\ shocks_applied = <<>>
    /\ months_accrued = 0
    /\ month_revenue = 0
    /\ month_profit = 0
    /\ active_partnerships = <<>>
    /\ expiry_index = 1
    /\ partnerships_to_remove = <<>>
    /\ brand_index = 1
    /\ blocked_brands = {}
    /\ partner_brands = {}
    /\ partnerships_formed = 0
    /\ partnerships_rejected_capacity = 0
    /\ active_cobranded_count = 0
    /\ alloc_call = NoCall
    /\ n_simulations = 1
    /\ base_seed = 0
    /\ driver_pc = "single trial"
    /\ runs_started = 0
    /\ model_index = 1
    /\ simulation_id = 0
    /\ results_count = <<0, 0>>
    /\ random_state = Unseeded
    /\ drawn = NoDraws
    /\ first_outcome = [key \in {} |-> 0]
    /\ function_input = NoFunction
    /\ function_output = NotReturned

\* the variables of run_simulation, which no step inside a trial writes
driver_vars == << n_simulations, base_seed, driver_pc, runs_started,
                 model_index, simulation_id, results_count, random_state,
                 drawn, first_outcome >>

function_vars == << function_input, function_output >>

config_vars == << model, total_annual_capacity, simulation_years,
                 product_complexity, product_costs, decision_speed,
                 annual_capacity, driver_vars, function_vars >>

\* the entries of monthly_revenues and monthly_profits written last
accrued_vars == << month_revenue, month_profit >>

\* the shock schedule and how far it has been applied
shock_vars == << market_shocks, shock_index, shocks_applied >>

(***************************************************************************)
(* Market update (quarterly), first step of every month                    *)
(***************************************************************************)
\* faulty variant: the proposals of the month run before its expiries
UpdateMarketThenPropose ==
    /\ pc = "market"
    /\ market_updates' = IF (month - 1) % 3 = 0 THEN market_updates + 1
                         ELSE market_updates
    /\ shock_index' = IF (month - 1) % 3 = 0
                      THEN shocks_due(market_shocks, shock_index, month)
                      ELSE shock_index
    /\ shocks_applied' =
           IF (month - 1) % 3 = 0
           THEN shocks_applied \o
                applied_now(market_shocks, shock_index,
                            shocks_due(market_shocks, shock_index, month),
                            month, market_updates + 1)
           ELSE shocks_applied
    /\ UNCHANGED market_shocks
    /\ pc' = "propose"
    /\ brand_index' = 1
    /\ alloc_call' = NoCall
    /\ UNCHANGED << config_vars, accrued_vars, committed_capacity, month, active_partnerships,
                    months_accrued, expiry_index, partnerships_to_remove,
                    blocked_brands, partner_brands, partnerships_formed,
                    partnerships_rejected_capacity, active_cobranded_count >>

UpdateMarket ==
    /\ pc = "market"
    /\ market_updates' = IF (month - 1) % 3 = 0 THEN market_updates + 1
                         ELSE market_updates
    /\ shock_index' = IF (month - 1) % 3 = 0
                      THEN shocks_due(market_shocks, shock_index, month)
                      ELSE shock_index
    /\ shocks_applied' =
           IF (month - 1) % 3 = 0
           THEN shocks_applied \o
                applied_now(market_shocks, shock_index,
                            shocks_due(market_shocks, shock_index, month),
                            month, market_updates + 1)
           ELSE shocks_applied
    /\ UNCHANGED market_shocks
    /\ pc' = "expire"
    /\ expiry_index' = 1
    /\ partnerships_to_remove' = <<>>
    /\ alloc_call' = NoCall
    /\ UNCHANGED << config_vars, accrued_vars, committed_capacity, month, active_partnerships,
                    months_accrued, brand_index, blocked_brands, partner_brands,
                    partnerships_formed, partnerships_rejected_capacity,
                    active_cobranded_count >>

(***************************************************************************)
(* Expiry loop: one step per element of active_partnerships; the list      *)
(* iterator also visits the deals appended by the loop itself.             *)
(***************************************************************************)
BrandNamed(name) ==
    CHOOSE b \in BrandIds : brand_agents[b].brand_name = name

ExpirySkip ==
    /\ pc = "expire"
    /\ expiry_index <= Len(active_partnerships)
    /\ active_partnerships[expiry_index].end_month # month
    /\ expiry_index' = expiry_index + 1
    /\ alloc_call' = NoCall
    /\ UNCHANGED << config_vars, shock_vars, accrued_vars, committed_capacity, month, pc, market_updates,
                    months_accrued,
                    active_partnerships, partnerships_to_remove, brand_index,
                    blocked_brands, partner_brands, partnerships_formed,
                    partnerships_rejected_capacity, active_cobranded_count >>

\* faulty variant: a brand whose deal is not renewed stays free to propose
ExpireWithoutRenewalNotBlocking ==
    /\ pc = "expire"
    /\ expiry_index <= Len(active_partnerships)
    /\ LET partnership == active_partnerships[expiry_index]
       IN  /\ partnership.end_month = month
           /\ committed_capacity' =
                  ReleaseAll(committed_capacity, partnership.products, 1)
           /\ UNCHANGED blocked_brands
    /\ partnerships_to_remove' = Append(partnerships_to_remove, expiry_index)
    /\ expiry_index' = expiry_index + 1
    /\ alloc_call' = NoCall
    /\ UNCHANGED << config_vars, shock_vars, accrued_vars, month, pc, market_updates, months_accrued,
                    active_partnerships,
                    brand_index, partner_brands, partnerships_formed,
                    partnerships_rejected_capacity, active_cobranded_count >>

\* faulty variant: the blocked set is assigned instead of extended
ExpireWithoutRenewalResetting ==
    /\ pc = "expire"
    /\ expiry_index <= Len(active_partnerships)
    /\ LET partnership == active_partnerships[expiry_index]
       IN  /\ partnership.end_month = month
           /\ committed_capacity' =
                  ReleaseAll(committed_capacity, partnership.products, 1)
           /\ blocked_brands' = {partnership.brand_name}
    /\ partnerships_to_remove' = Append(partnerships_to_remove, expiry_index)
    /\ expiry_index' = expiry_index + 1
    /\ alloc_call' = NoCall
    /\ UNCHANGED << config_vars, shock_vars, accrued_vars, month, pc, market_updates, months_accrued,
                    active_partnerships,
                    brand_index, partner_brands, partnerships_formed,
                    partnerships_rejected_capacity, active_cobranded_count >>

\* the deal ends and is not offered for renewal (already blocked, or the
\* 50% draw fails): the brand is blocked
ExpireWithoutRenewal ==
    /\ pc = "expire"
    /\ expiry_index <= Len(active_partnerships)
    /\ LET partnership == active_partnerships[expiry_index]
       IN  /\ partnership.end_month = month
           /\ committed_capacity' =
                  ReleaseAll(committed_capacity, partnership.products, 1)
           /\ blocked_brands' = blocked_brands \cup {partnership.brand_name}
    /\ partnerships_to_remove' = Append(partnerships_to_remove, expiry_index)
    /\ expiry_index' = expiry_index + 1
    /\ alloc_call' = NoCall
    /\ UNCHANGED << config_vars, shock_vars, accrued_vars, month, pc, market_updates, months_accrued,
                    active_partnerships,
                    brand_index, partner_brands, partnerships_formed,
                    partnerships_rejected_capacity, active_cobranded_count >>

\* faulty variant: the renewed deal starts in the month of the renewal and
\* its end is not clamped
RenewedDealStartingNow(partnership, result, duration) ==
    [brand_name |-> partnership.brand_name,
     model |-> partnership.model,
     start_month |-> month,
     end_month |-> month + duration,
     products |-> result.allocation,
     monthly_revenue |->
         FinancialsFrom(product_costs, result.allocation, partnership.model,
                        brand_agents[BrandNamed(partnership.brand_name)], 1).monthly_revenue,
     monthly_profit |->
         FinancialsFrom(product_costs, result.allocation, partnership.model,
                        brand_agents[BrandNamed(partnership.brand_name)], 1).monthly_profit,
     segment |-> partnership.segment,
     annual_units |-> result.units,
     created_month |-> month,
     renewal |-> TRUE]

RenewedDeal(partnership, result, duration) ==
    [brand_name |-> partnership.brand_name,
     model |-> partnership.model,
     start_month |-> month + 1,
     end_month |-> Min2(month + duration, total_months),
     products |-> result.allocation,
     monthly_revenue |->
         FinancialsFrom(product_costs, result.allocation, partnership.model,
                        brand_agents[BrandNamed(partnership.brand_name)], 1).monthly_revenue,
     monthly_profit |->
         FinancialsFrom(product_costs, result.allocation, partnership.model,
                        brand_agents[BrandNamed(partnership.brand_name)], 1).monthly_profit,
     segment |-> partnership.segment,
     annual_units |-> result.units,
     created_month |-> month,
     renewal |-> TRUE]

\* the renewals made so far by the expiry loop of this month
RenewalsThisMonth ==
    Cardinality({k \in 1..Len(active_partnerships) :
                    /\ active_partnerships[k].renewal
                    /\ active_partnerships[k].created_month = month})

\* faulty variant: a renewal the allocation policy refuses leaves the brand
\* free to propose again
ExpireAndAttemptRenewalNotBlocking ==
    /\ pc = "expire"
    /\ expiry_index <= Len(active_partnerships)
    /\ LET partnership == active_partnerships[expiry_index]
           renewing_brand == brand_agents[BrandNamed(partnership.brand_name)]
           released == ReleaseAll(committed_capacity, partnership.products, 1)
           availability ==
               product_availability(product_complexity, total_annual_capacity, released)
       IN  /\ partnership.end_month = month
           /\ partnership.brand_name \notin blocked_brands
           /\ RenewalsThisMonth < MaxRenewalsPerMonth
           /\ \E selected \in Selections(Len(product_complexity)) :
              \E splits \in Splits(Len(selected)) :
                LET result == macron_capacity_allocation(
                                  renewing_brand, partnership.annual_units,
                                  partnership.model, product_complexity,
                                  total_annual_capacity, released, selected, splits)
                IN  /\ alloc_call' = Call("renewal", renewing_brand,
                                          partnership.annual_units, result, availability)
                    /\ IF result.units > 0
                       THEN /\ committed_capacity' =
                                   CommitAll(released, result.allocation, 1)
                            /\ \E duration \in DurationChoices :
                                 active_partnerships' =
                                   Append(active_partnerships,
                                          RenewedDeal(partnership, result, duration))
                            /\ UNCHANGED blocked_brands
                       ELSE /\ committed_capacity' = released
                            /\ UNCHANGED << blocked_brands, active_partnerships >>
    /\ partnerships_to_remove' = Append(partnerships_to_remove, expiry_index)
    /\ expiry_index' = expiry_index + 1
    /\ UNCHANGED << config_vars, shock_vars, accrued_vars, month, pc, market_updates, months_accrued,
                    brand_index,
                    partner_brands, partnerships_formed,
                    partnerships_rejected_capacity, active_cobranded_count >>

\* the deal ends, the 50% draw succeeds and the allocation policy is asked
\* for partnership.annual_units again
ExpireAndAttemptRenewal ==
    /\ pc = "expire"
    /\ expiry_index <= Len(active_partnerships)
    /\ LET partnership == active_partnerships[expiry_index]
           renewing_brand == brand_agents[BrandNamed(partnership.brand_name)]
           released == ReleaseAll(committed_capacity, partnership.products, 1)
           availability ==
               product_availability(product_complexity, total_annual_capacity, released)
       IN  /\ partnership.end_month = month
           /\ partnership.brand_name \notin blocked_brands
           /\ RenewalsThisMonth < MaxRenewalsPerMonth
           /\ \E selected \in Selections(Len(product_complexity)) :
              \E splits \in Splits(Len(selected)) :
                LET result == macron_capacity_allocation(
                                  renewing_brand, partnership.annual_units,
                                  partnership.model, product_complexity,
                                  total_annual_capacity, released, selected, splits)
                IN  /\ alloc_call' = Call("renewal", renewing_brand,
                                          partnership.annual_units, result, availability)
                    /\ IF result.units > 0
                       THEN /\ committed_capacity' =
                                   CommitAll(released, result.allocation, 1)
                            /\ \E duration \in DurationChoices :
                                 active_partnerships' =
                                   Append(active_partnerships,
                                          RenewedDeal(partnership, result, duration))
                            /\ UNCHANGED blocked_brands
                       ELSE /\ committed_capacity' = released
                            /\ blocked_brands' =
                                   blocked_brands \cup {partnership.brand_name}
                            /\ UNCHANGED active_partnerships
    /\ partnerships_to_remove' = Append(partnerships_to_remove, expiry_index)
    /\ expiry_index' = expiry_index + 1
    /\ UNCHANGED << config_vars, shock_vars, accrued_vars, month, pc, market_updates, months_accrued,
                    brand_index,
                    partner_brands, partnerships_formed,
                    partnerships_rejected_capacity, active_cobranded_count >>

\* "Remove ended partnerships" and "Update co-branded count"
RemoveAt(list, indices) ==
    SelectSeq([k \in 1..Len(list) |-> [idx |-> k, deal |-> list[k]]],
              LAMBDA e : \A j \in 1..Len(indices) : indices[j] # e.idx)

Deals(tagged) == [k \in 1..Len(tagged) |-> tagged[k].deal]

CountActive(list, m) ==
    Cardinality({k \in 1..Len(list) :
                    list[k].start_month <= m /\ m <= list[k].end_month})

RemoveEnded ==
    /\ pc = "expire"
    /\ expiry_index > Len(active_partnerships)
    /\ active_partnerships' =
           Deals(RemoveAt(active_partnerships, partnerships_to_remove))
    /\ active_cobranded_count' =
           IF model = "co-branded"
           THEN CountActive(active_partnerships', month)
           ELSE active_cobranded_count
    /\ pc' = "propose"
    /\ brand_index' = 1
    /\ alloc_call' = NoCall
    /\ UNCHANGED << config_vars, shock_vars, accrued_vars, committed_capacity, month, market_updates,
                    months_accrued,
                    expiry_index, partnerships_to_remove, blocked_brands,
                    partner_brands, partnerships_formed,
                    partnerships_rejected_capacity >>

(***************************************************************************)
(* Proposal loop: "Each brand considers partnership", one step per brand   *)
(***************************************************************************)
\* faulty variant: the check for an active partnership is missing
has_active_never(brand_name) == FALSE

has_active(brand_name) ==
    \E k \in 1..Len(active_partnerships) :
        /\ active_partnerships[k].brand_name = brand_name
        /\ active_partnerships[k].end_month >= month

\* the brand reaches its evaluation this month
Considers(b) ==
    /\ brand_agents[b].brand_name \notin blocked_brands
    /\ ~has_active(brand_agents[b].brand_name)
    /\ month % decision_frequency(decision_speed[b]) = 0

ProposalSkipped ==
    /\ pc = "propose"
    /\ brand_index <= Len(brand_agents)
    /\ ~Considers(brand_index)
    /\ brand_index' = brand_index + 1
    /\ alloc_call' = NoCall
    /\ UNCHANGED << config_vars, shock_vars, accrued_vars, committed_capacity, month, pc, market_updates,
                    months_accrued,
                    active_partnerships, expiry_index, partnerships_to_remove,
                    blocked_brands, partner_brands, partnerships_formed,
                    partnerships_rejected_capacity, active_cobranded_count >>

\* the brand's evaluation (external scoring and the acceptance draw) fails
BrandDeclines ==
    /\ pc = "propose"
    /\ brand_index <= Len(brand_agents)
    /\ Considers(brand_index)
    /\ brand_index' = brand_index + 1
    /\ alloc_call' = NoCall
    /\ UNCHANGED << config_vars, shock_vars, accrued_vars, committed_capacity, month, pc, market_updates,
                    months_accrued,
                    active_partnerships, expiry_index, partnerships_to_remove,
                    blocked_brands, partner_brands, partnerships_formed,
                    partnerships_rejected_capacity, active_cobranded_count >>

\* faulty variant: the deal ends one month early
NewDealEndingEarly(brand, result, duration) ==
    [brand_name |-> brand.brand_name,
     model |-> model,
     start_month |-> month,
     end_month |-> Min2(month + duration - 1, total_months),
     products |-> result.allocation,
     monthly_revenue |->
         FinancialsFrom(product_costs, result.allocation, model,
                        brand, 1).monthly_revenue,
     monthly_profit |->
         FinancialsFrom(product_costs, result.allocation, model,
                        brand, 1).monthly_profit,
     segment |-> PrimarySegment(brand),
     annual_units |-> SumSeq(result.allocation),
     created_month |-> month,
     renewal |-> FALSE]

NewDeal(brand, result, duration) ==
    [brand_name |-> brand.brand_name,
     model |-> model,
     start_month |-> month,
     end_month |-> Min2(month + duration, total_months),
     products |-> result.allocation,
     monthly_revenue |->
         FinancialsFrom(product_costs, result.allocation, model,
                        brand, 1).monthly_revenue,
     monthly_profit |->
         FinancialsFrom(product_costs, result.allocation, model,
                        brand, 1).monthly_profit,
     segment |-> PrimarySegment(brand),
     annual_units |-> SumSeq(result.allocation),
     created_month |-> month,
     renewal |-> FALSE]

\* the brand accepts and the proposal goes through the allocation policy and
\* the producer's strategic acceptance
BrandProposes ==
    /\ pc = "propose"
    /\ brand_index <= Len(brand_agents)
    /\ LET brand == brand_agents[brand_index]
           availability ==
               product_availability(product_complexity, total_annual_capacity,
                                    committed_capacity)
       IN  /\ Considers(brand_index)
           /\ \E jitter \in JitterChoices :
              \E selected \in Selections(Len(product_complexity)) :
              \E splits \in Splits(Len(selected)) :
                LET desired_units == calculate_brand_demand(brand, model, jitter)
                    result == macron_capacity_allocation(
                                  brand, desired_units, model, product_complexity,
                                  total_annual_capacity, committed_capacity,
                                  selected, splits)
                IN  /\ alloc_call' = Call("new", brand, desired_units, result,
                                          availability)
                    /\ \/ /\ result.units = 0
                          /\ partnerships_rejected_capacity' =
                                 partnerships_rejected_capacity + 1
                          /\ UNCHANGED << committed_capacity, active_partnerships,
                                          partner_brands, partnerships_formed >>
                       \/ /\ result.units # 0
                          /\ \E coin1 \in BOOLEAN : \E coin2 \in BOOLEAN :
                                macron_accepts(brand, model, result.units,
                                               active_cobranded_count, coin1, coin2)
                          /\ committed_capacity' =
                                 CommitAll(committed_capacity, result.allocation, 1)
                          /\ partnerships_formed' = partnerships_formed + 1
                          /\ partner_brands' = partner_brands \cup {brand.brand_name}
                          /\ \E duration \in DurationChoices :
                                active_partnerships' =
                                    Append(active_partnerships,
                                           NewDeal(brand, result, duration))
                          /\ UNCHANGED partnerships_rejected_capacity
                       \/ /\ result.units # 0
                          /\ \E coin1 \in BOOLEAN : \E coin2 \in BOOLEAN :
                                ~macron_accepts(brand, model, result.units,
                                                active_cobranded_count, coin1, coin2)
                          /\ UNCHANGED << committed_capacity, active_partnerships,
                                          partner_brands, partnerships_formed,
                                          partnerships_rejected_capacity >>
    /\ brand_index' = brand_index + 1
    /\ UNCHANGED << config_vars, shock_vars, accrued_vars, month, pc, market_updates, months_accrued,
                    expiry_index,
                    partnerships_to_remove, blocked_brands, active_cobranded_count >>

EndProposals ==
    /\ pc = "propose"
    /\ brand_index > Len(brand_agents)
    /\ pc' = "accrue"
    /\ alloc_call' = NoCall
    /\ UNCHANGED << config_vars, shock_vars, accrued_vars, committed_capacity, month, market_updates,
                    months_accrued,
                    active_partnerships, expiry_index, partnerships_to_remove,
                    brand_index, blocked_brands, partner_brands,
                    partnerships_formed, partnerships_rejected_capacity,
                    active_cobranded_count >>

(***************************************************************************)
(* Revenue accrual and end of the month                                    *)
(***************************************************************************)
\* the deals the accrual loop counts in month m
accruing(list, m) ==
    SelectSeq(list, LAMBDA p : p.start_month <= m /\ m <= p.end_month)

\* faulty variant: the main loop runs over the months of the first year only
AccrueMonthStoppingEarly ==
    /\ pc = "accrue"
    /\ IF month < MonthsPerYear
       THEN /\ month' = month + 1
            /\ pc' = "market"
       ELSE /\ pc' = "done"
            /\ UNCHANGED month
    /\ months_accrued' = months_accrued + 1
    /\ LET counted == accruing(active_partnerships, month)
       IN  /\ month_revenue' =
                  SumSeq([k \in 1..Len(counted) |-> counted[k].monthly_revenue])
           /\ month_profit' =
                  SumSeq([k \in 1..Len(counted) |-> counted[k].monthly_profit])
    /\ alloc_call' = NoCall
    /\ UNCHANGED << config_vars, shock_vars, committed_capacity, market_updates,
                    active_partnerships, expiry_index, partnerships_to_remove,
                    brand_index, blocked_brands, partner_brands,
                    partnerships_formed, partnerships_rejected_capacity,
                    active_cobranded_count >>

AccrueMonth ==
    /\ pc = "accrue"
    /\ IF month < total_months
       THEN /\ month' = month + 1
            /\ pc' = "market"
       ELSE /\ pc' = "done"
            /\ UNCHANGED month
    /\ months_accrued' = months_accrued + 1
    /\ LET counted == accruing(active_partnerships, month)
       IN  /\ month_revenue' =
                  SumSeq([k \in 1..Len(counted) |-> counted[k].monthly_revenue])
           /\ month_profit' =
                  SumSeq([k \in 1..Len(counted) |-> counted[k].monthly_profit])
    /\ alloc_call' = NoCall
    /\ UNCHANGED << config_vars, shock_vars, committed_capacity, market_updates,
                    active_partnerships, expiry_index, partnerships_to_remove,
                    brand_index, blocked_brands, partner_brands,
                    partnerships_formed, partnerships_rejected_capacity,
                    active_cobranded_count >>

Next ==
    \/ UpdateMarket
    \/ ExpirySkip
    \/ ExpireWithoutRenewal
    \/ ExpireAndAttemptRenewal
    \/ RemoveEnded
    \/ ProposalSkipped
    \/ BrandDeclines
    \/ BrandProposes
    \/ EndProposals
    \/ AccrueMonth

Spec == Init /\ [][Next]_vars

\* the loops of run_single_simulation run to completion: a trial that can
\* take a step takes one
FairSpec == Spec /\ WF_vars(Next)

\* the steps of the loops that complete without a call of the allocation
\* policy; before the end of the trial one of them is always possible
LoopStep ==
    \/ UpdateMarket
    \/ ExpirySkip
    \/ ExpireWithoutRenewal
    \/ RemoveEnded
    \/ ProposalSkipped
    \/ BrandDeclines
    \/ EndProposals
    \/ AccrueMonth

\* no loop of the trial stalls.  As some step of LoopStep is possible
\* wherever a step of Next is, this asks of the trial what FairSpec asks.
ProgressSpec == Spec /\ WF_vars(LoopStep)

(***************************************************************************)
(* A crowded co-branded trial: after the two large brands, 21 small         *)
(* technical brands that all reach their evaluation in month 12.            *)
(***************************************************************************)
CrowdConfiguration ==
    [total_annual_capacity |-> 400000, simulation_years |-> 1,
     product_complexity |-> << "Low" >>,
     variable_cost |-> << 12 >>,
     decision_speed |-> << 40, 0 >> \o [k \in 1..Len(CrowdNames) |-> 15]]

CrowdInit ==
    /\ model = "co-branded"
    /\ total_annual_capacity = CrowdConfiguration.total_annual_capacity
    /\ simulation_years = CrowdConfiguration.simulation_years
    /\ product_complexity = CrowdConfiguration.product_complexity
    /\ product_costs = CrowdConfiguration.variable_cost
    /\ decision_speed = CrowdConfiguration.decision_speed
    /\ annual_capacity =
           initialize_annual_capacity(product_complexity, total_annual_capacity)
    /\ committed_capacity = [p \in 1..Len(product_complexity) |-> 0]
    /\ month = 1
    /\ pc = "market"
    /\ market_updates = 0
    /\ market_shocks = <<>>        \* "n_shocks" was drawn as 0
    /\ shock_index = 0
    /\ shocks_applied = <<>>
    /\ months_accrued = 0
    /\ month_revenue = 0
    /\ month_profit = 0
    /\ active_partnerships = <<>>
    /\ expiry_index = 1
    /\ partnerships_to_remove = <<>>
    /\ brand_index = 1
    /\ blocked_brands = {}
    /\ partner_brands = {}
    /\ partnerships_formed = 0
    /\ partnerships_rejected_capacity = 0
    /\ active_cobranded_count = 0
    /\ alloc_call = NoCall
    /\ n_simulations = 1
    /\ base_seed = 0
    /\ driver_pc = "single trial"
    /\ runs_started = 0
    /\ model_index = 1
    /\ simulation_id = 0
    /\ results_count = <<0, 0>>
    /\ random_state = Unseeded
    /\ drawn = NoDraws
    /\ first_outcome = [key \in {} |-> 0]
    /\ function_input = NoFunction
    /\ function_output = NotReturned

\* the brands visited earlier in this month's proposal loop that reached
\* their evaluation and are left without a deal
DeclinesThisMonth ==
    Cardinality({b \in 1..(brand_index - 1) : Considers(b)})

BrandDeclinesWithinBound ==
    /\ DeclinesThisMonth < MaxDeclinesPerMonth
    /\ BrandDeclines

CrowdNext ==
    \/ UpdateMarket
    \/ ExpirySkip
    \/ ExpireWithoutRenewal
    \/ ExpireAndAttemptRenewal
    \/ RemoveEnded
    \/ ProposalSkipped
    \/ BrandDeclinesWithinBound
    \/ BrandProposes
    \/ EndProposals
    \/ AccrueMonth

CrowdSpec == CrowdInit /\ [][CrowdNext]_vars

(***************************************************************************)
(* Shock schedule: a trial over a horizon of SimulationYears with one      *)
(* product and one deciding brand, whose market shocks are any schedule    *)
(* that _generate_market_shocks can return for the months explored.        *)
(***************************************************************************)
ShockConfiguration ==
    [total_annual_capacity |-> 40000, simulation_years |-> SimulationYears,
     product_complexity |-> << "Low" >>,
     variable_cost |-> << 12 >>,
     decision_speed |-> << 15, 0 >>]

\* outcomes of "random.randint(6, self.total_months - 12)" explored: both
\* ends of the range, a month between two quarterly months and a quarterly
\* month
ShockMonthsExplored(months) ==
    {m \in {6, 7, 10, months - 12} : 6 <= m /\ m <= months - 12}

\* the shock months in the order drawn: n_shocks of them
ShockDraws(months) ==
    UNION { [1..n -> ShockMonthsExplored(months)] :
            n \in 0..(IF MaxShocks < max_shocks_per_simulation
                      THEN MaxShocks ELSE max_shocks_per_simulation) }

ShockInit ==
    /\ model \in Models
    /\ total_annual_capacity = ShockConfiguration.total_annual_capacity
    /\ simulation_years = ShockConfiguration.simulation_years
    /\ product_complexity = ShockConfiguration.product_complexity
    /\ product_costs = ShockConfiguration.variable_cost
    /\ decision_speed = ShockConfiguration.decision_speed
    /\ annual_capacity =
           initialize_annual_capacity(product_complexity, total_annual_capacity)
    /\ committed_capacity = [p \in 1..Len(product_complexity) |-> 0]
    /\ month = 1
    /\ pc = "market"
    /\ market_updates = 0
    /\ \E months_drawn \in ShockDraws(total_months) :
          market_shocks = generated_shocks(months_drawn)
    /\ shock_index = 0
    /\ shocks_applied = <<>>
    /\ months_accrued = 0
    /\ month_revenue = 0
    /\ month_profit = 0
    /\ active_partnerships = <<>>
    /\ expiry_index = 1
    /\ partnerships_to_remove = <<>>
    /\ brand_index = 1
    /\ blocked_brands = {}
    /\ partner_brands = {}
    /\ partnerships_formed = 0
    /\ partnerships_rejected_capacity = 0
    /\ active_cobranded_count = 0
    /\ alloc_call = NoCall
    /\ n_simulations = 1
    /\ base_seed = 0
    /\ driver_pc = "single trial"
    /\ runs_started = 0
    /\ model_index = 1
    /\ simulation_id = 0
    /\ results_count = <<0, 0>>
    /\ random_state = Unseeded
    /\ drawn = NoDraws
    /\ first_outcome = [key \in {} |-> 0]
    /\ function_input = NoFunction
    /\ function_output = NotReturned

ShockSpec == ShockInit /\ [][Next]_vars

(***************************************************************************)
(* Driver: run_simulation runs n_simulations trials per model, each seeded *)
(* with base_seed + i, and hands the results to analyze_results.  Here the *)
(* random choices of a trial are the outputs of the seeded generator: the  *)
(* draws of a step are taken first, then the step they decide runs.        *)
(***************************************************************************)
\* config.n_simulations explored: 0..MaxSimulations
MaxSimulations == 2
\* calls of run_simulation on one SingleModelSimulation object
MaxRuns == 2

BaseSeeds == {0, 42}

\* "for model in ['co-branded', 'white-label']"
ModelOrder == << "co-branded", "white-label" >>

\* the k-th next output of a generator: a fixed function of its seed and of
\* the number of outputs taken since it was seeded
RandomValue(state, k) ==
    LET s == state.seed + 2
        p == state.position + k
    IN  ((s * 17 + p * 29 + 3) * (s * 5 + p * 11 + 7)) % 1013

Pick(value, n) == (value \div 7) % n

DrawBlock == 1..10

Advance(state) ==
    [state EXCEPT !.position = state.position + Cardinality(DrawBlock)]

\* the step of the trial that is next, and whether it draws random numbers
StepKey ==
    << month, pc, IF pc = "expire" THEN expiry_index ELSE brand_index >>

NeedsDraw ==
    \/ /\ pc = "expire"
       /\ expiry_index <= Len(active_partnerships)
       /\ active_partnerships[expiry_index].end_month = month
       /\ active_partnerships[expiry_index].brand_name \notin blocked_brands
    \/ /\ pc = "propose"
       /\ brand_index <= Len(brand_agents)
       /\ Considers(brand_index)

DrawnFor == drawn.key = StepKey

\* the draws in the order the step uses them
DrawnCoin == Pick(drawn.values[1], 2) = 0

DrawnJitter == IF Pick(drawn.values[2], 2) = 0 THEN 80 ELSE 120

DrawnSelected ==
    LET n == Len(product_complexity)
        k == Min2(Pick(drawn.values[3], 2) + 1, Min2(MaxProductsPerDeal, n))
    IN  [i \in 1..k |-> Pick(drawn.values[3 + i], n) + 1]

DrawnSplits ==
    [i \in 1..Len(DrawnSelected) |->
        IF Pick(drawn.values[5 + i], 2) = 0 THEN 20 ELSE 50]

DrawnCoin1 == Pick(drawn.values[8], 2) = 0

DrawnCoin2 == Pick(drawn.values[9], 2) = 0

DrawnDuration == (Pick(drawn.values[10], 3) + 1) * 12

\* what run_single_simulation leaves behind when its loop has ended
Outcome ==
    << partnerships_formed, partnerships_rejected_capacity, partner_brands,
       active_partnerships, committed_capacity, blocked_brands, month_revenue,
       month_profit, market_updates, months_accrued >>

TrialKey == << ModelOrder[model_index], base_seed + simulation_id >>

DriverInit ==
    /\ model = ModelOrder[1]
    /\ \E config \in Configurations :
          /\ total_annual_capacity = config.total_annual_capacity
          /\ simulation_years = config.simulation_years
          /\ product_complexity = config.product_complexity
          /\ product_costs = config.variable_cost
          /\ decision_speed = config.decision_speed
    /\ annual_capacity =
           initialize_annual_capacity(product_complexity, total_annual_capacity)
    /\ committed_capacity = [p \in 1..Len(product_complexity) |-> 0]
    /\ month = 1
    /\ pc = "not started"
    /\ market_updates = 0
    /\ market_shocks = <<>>
    /\ shock_index = 0
    /\ shocks_applied = <<>>
    /\ months_accrued = 0
    /\ month_revenue = 0
    /\ month_profit = 0
    /\ active_partnerships = <<>>
    /\ expiry_index = 1
    /\ partnerships_to_remove = <<>>
    /\ brand_index = 1
    /\ blocked_brands = {}
    /\ partner_brands = {}
    /\ partnerships_formed = 0
    /\ partnerships_rejected_capacity = 0
    /\ active_cobranded_count = 0
    /\ alloc_call = NoCall
    /\ n_simulations \in 0..MaxSimulations
    /\ base_seed \in BaseSeeds
    /\ driver_pc = "ready"
    /\ runs_started = 0
    /\ model_index = 1
    /\ simulation_id = 0
    /\ results_count = <<0, 0>>
    /\ random_state = Unseeded
    /\ drawn = NoDraws
    /\ first_outcome = [key \in {} |-> 0]
    /\ function_input = NoFunction
    /\ function_output = NotReturned

trial_vars == << committed_capacity, month, pc, market_updates, shock_vars,
                months_accrued,
                accrued_vars, active_partnerships, expiry_index,
                partnerships_to_remove, brand_index, blocked_brands,
                partner_brands, partnerships_formed,
                partnerships_rejected_capacity, active_cobranded_count,
                alloc_call >>

input_vars == << total_annual_capacity, simulation_years, product_complexity,
                product_costs, decision_speed, n_simulations, base_seed >>

static_vars == << input_vars, function_vars >>

\* run_simulation is called: "results = {'co-branded': [], 'white-label': []}"
RunSimulation ==
    /\ driver_pc \in {"ready", "returned"}
    /\ runs_started < MaxRuns
    /\ runs_started' = runs_started + 1
    /\ results_count' = <<0, 0>>
    /\ model_index' = 1
    /\ simulation_id' = 0
    /\ driver_pc' = "loop"
    /\ UNCHANGED << static_vars, model, annual_capacity, trial_vars,
                    random_state, drawn, first_outcome >>

\* _generate_market_shocks, its draws taken from the generator in state:
\* "n_shocks = random.randint(0, self.config.max_shocks_per_simulation)"
n_shocks_drawn(state) == Pick(RandomValue(state, 0), max_shocks_per_simulation + 1)

\* "random.randint(6, self.total_months - 12)" raises ValueError when the
\* range is empty
ShockMonthCanBeDrawn == 6 <= total_months - 12

\* shock_month is the first of the four draws made for each shock
shock_months_drawn(state) ==
    [k \in 1..n_shocks_drawn(state) |->
        6 + Pick(RandomValue(state, 4 * (k - 1) + 1), total_months - 12 - 6 + 1)]

AfterShocks(state) ==
    [state EXCEPT !.position = state.position + 1 + 4 * n_shocks_drawn(state)]

\* faulty variant: the trial starts without seeding the generator
StartTrialKeepingGenerator ==
    /\ driver_pc = "loop"
    /\ simulation_id < n_simulations
    /\ n_shocks_drawn(random_state) > 0 => ShockMonthCanBeDrawn
    /\ random_state' = AfterShocks(random_state)
    /\ market_shocks' = generated_shocks(shock_months_drawn(random_state))
    /\ shock_index' = 0
    /\ shocks_applied' = <<>>
    /\ model' = ModelOrder[model_index]
    /\ annual_capacity' =
           initialize_annual_capacity(product_complexity, total_annual_capacity)
    /\ committed_capacity' = [p \in 1..Len(product_complexity) |-> 0]
    /\ month' = 1
    /\ pc' = "market"
    /\ market_updates' = 0
    /\ months_accrued' = 0
    /\ month_revenue' = 0
    /\ month_profit' = 0
    /\ active_partnerships' = <<>>
    /\ expiry_index' = 1
    /\ partnerships_to_remove' = <<>>
    /\ brand_index' = 1
    /\ blocked_brands' = {}
    /\ partner_brands' = {}
    /\ partnerships_formed' = 0
    /\ partnerships_rejected_capacity' = 0
    /\ active_cobranded_count' = 0
    /\ alloc_call' = NoCall
    /\ drawn' = NoDraws
    /\ driver_pc' = "trial"
    /\ UNCHANGED << static_vars, runs_started, model_index, simulation_id,
                    results_count, first_outcome >>

\* run_single_simulation(i, model) up to its main loop: the generators are
\* seeded and every piece of the trial's state is created afresh
StartTrial ==
    /\ driver_pc = "loop"
    /\ simulation_id < n_simulations
    /\ n_shocks_drawn(Seeded(base_seed + simulation_id)) > 0 => ShockMonthCanBeDrawn
    /\ random_state' = AfterShocks(Seeded(base_seed + simulation_id))
    /\ market_shocks' =
           generated_shocks(shock_months_drawn(Seeded(base_seed + simulation_id)))
    /\ shock_index' = 0
    /\ shocks_applied' = <<>>
    /\ model' = ModelOrder[model_index]
    /\ annual_capacity' =
           initialize_annual_capacity(product_complexity, total_annual_capacity)
    /\ committed_capacity' = [p \in 1..Len(product_complexity) |-> 0]
    /\ month' = 1
    /\ pc' = "market"
    /\ market_updates' = 0
    /\ months_accrued' = 0
    /\ month_revenue' = 0
    /\ month_profit' = 0
    /\ active_partnerships' = <<>>
    /\ expiry_index' = 1
    /\ partnerships_to_remove' = <<>>
    /\ brand_index' = 1
    /\ blocked_brands' = {}
    /\ partner_brands' = {}
    /\ partnerships_formed' = 0
    /\ partnerships_rejected_capacity' = 0
    /\ active_cobranded_count' = 0
    /\ alloc_call' = NoCall
    /\ drawn' = NoDraws
    /\ driver_pc' = "trial"
    /\ UNCHANGED << static_vars, runs_started, model_index, simulation_id,
                    results_count, first_outcome >>

\* run_single_simulation raises ValueError out of _generate_market_shocks:
\* a shock was drawn for a horizon that has no month to put it in, and
\* run_simulation ends with that exception
StartTrialRaises ==
    /\ driver_pc = "loop"
    /\ simulation_id < n_simulations
    /\ n_shocks_drawn(Seeded(base_seed + simulation_id)) > 0
    /\ ~ShockMonthCanBeDrawn
    /\ random_state' =
           [Seeded(base_seed + simulation_id) EXCEPT !.position = 1]
    /\ driver_pc' = "raised"
    /\ UNCHANGED << static_vars, model, annual_capacity, trial_vars,
                    runs_started, model_index, simulation_id, results_count,
                    drawn, first_outcome >>

\* the random numbers of the next step are taken from the generator
DrawForStep ==
    /\ driver_pc = "trial"
    /\ NeedsDraw
    /\ ~DrawnFor
    /\ drawn' = [key |-> StepKey,
                 values |-> [k \in DrawBlock |-> RandomValue(random_state, k - 1)]]
    /\ random_state' = Advance(random_state)
    /\ UNCHANGED << static_vars, model, annual_capacity, trial_vars,
                    driver_pc, runs_started, model_index, simulation_id,
                    results_count, first_outcome >>

\* the steps of the month that draw nothing
SteadyTrialStep ==
    /\ driver_pc = "trial"
    /\ \/ UpdateMarket
       \/ ExpirySkip
       \/ RemoveEnded
       \/ ProposalSkipped
       \/ EndProposals
       \/ AccrueMonth

\* an expiry: "brand_name not in blocked_brands and random.random() < 0.5"
\* fails, or it holds and the renewal goes through the allocation policy with
\* the products, splits and duration drawn
DrawnExpiryStep ==
    /\ driver_pc = "trial"
    /\ pc = "expire"
    /\ expiry_index <= Len(active_partnerships)
    /\ LET partnership == active_partnerships[expiry_index]
           renewing_brand == brand_agents[BrandNamed(partnership.brand_name)]
           released == ReleaseAll(committed_capacity, partnership.products, 1)
           result == macron_capacity_allocation(
                         renewing_brand, partnership.annual_units,
                         partnership.model, product_complexity,
                         total_annual_capacity, released,
                         DrawnSelected, DrawnSplits)
       IN  \/ /\ partnership.brand_name \in blocked_brands
              /\ ExpireWithoutRenewal
           \/ /\ DrawnFor
              /\ ~DrawnCoin
              /\ ExpireWithoutRenewal
           \/ /\ DrawnFor
              /\ DrawnCoin
              /\ ExpireAndAttemptRenewal
              /\ alloc_call'.units = result.units
              /\ alloc_call'.allocation = result.allocation
              /\ result.units > 0 =>
                    active_partnerships'[Len(active_partnerships')].end_month
                        = Min2(month + DrawnDuration, total_months)

\* a proposal: the brand's acceptance draw fails, or it holds and the
\* proposal goes through the allocation policy and the strategic acceptance
\* with the jitter, products, splits, coins and duration drawn
DrawnProposalStep ==
    /\ driver_pc = "trial"
    /\ pc = "propose"
    /\ brand_index <= Len(brand_agents)
    /\ DrawnFor
    /\ LET brand == brand_agents[brand_index]
           desired_units == calculate_brand_demand(brand, model, DrawnJitter)
           result == macron_capacity_allocation(
                         brand, desired_units, model, product_complexity,
                         total_annual_capacity, committed_capacity,
                         DrawnSelected, DrawnSplits)
           accepted == macron_accepts(brand, model, result.units,
                                      active_cobranded_count,
                                      DrawnCoin1, DrawnCoin2)
       IN  \/ /\ ~DrawnCoin
              /\ BrandDeclines
           \/ /\ DrawnCoin
              /\ BrandProposes
              /\ alloc_call'.desired_units = desired_units
              /\ alloc_call'.units = result.units
              /\ alloc_call'.allocation = result.allocation
              /\ result.units > 0 =>
                    /\ accepted <=> partnerships_formed' = partnerships_formed + 1
                    /\ accepted =>
                          active_partnerships'[Len(active_partnerships')].end_month
                              = Min2(month + DrawnDuration, total_months)

\* "result = self.run_single_simulation(i, model); results[model].append"
FinishTrial ==
    /\ driver_pc = "trial"
    /\ pc = "done"
    /\ results_count' =
           [results_count EXCEPT ![model_index] = results_count[model_index] + 1]
    /\ first_outcome' =
           IF TrialKey \in DOMAIN first_outcome THEN first_outcome
           ELSE [key \in DOMAIN first_outcome \cup {TrialKey} |->
                    IF key = TrialKey THEN Outcome ELSE first_outcome[key]]
    /\ simulation_id' = simulation_id + 1
    /\ driver_pc' = "loop"
    /\ UNCHANGED << static_vars, model, annual_capacity, trial_vars,
                    runs_started, model_index, random_state, drawn >>

\* the trial loop of one model has ended and the next model's begins
NextModel ==
    /\ driver_pc = "loop"
    /\ simulation_id = n_simulations
    /\ model_index < Len(ModelOrder)
    /\ model_index' = model_index + 1
    /\ simulation_id' = 0
    /\ UNCHANGED << static_vars, model, annual_capacity, trial_vars,
                    driver_pc, runs_started, results_count, random_state,
                    drawn, first_outcome >>

\* analyze_results: pd.DataFrame(model_results)['total_revenue'] raises
\* KeyError for an empty list of results
AnalyzeResults ==
    /\ driver_pc = "loop"
    /\ simulation_id = n_simulations
    /\ model_index = Len(ModelOrder)
    /\ driver_pc' = IF \E m \in 1..Len(ModelOrder) : results_count[m] = 0
                    THEN "KeyError"
                    ELSE "returned"
    /\ UNCHANGED << static_vars, model, annual_capacity, trial_vars,
                    runs_started, model_index, simulation_id, results_count,
                    random_state, drawn, first_outcome >>

DriverNext ==
    \/ RunSimulation
    \/ StartTrial
    \/ StartTrialRaises
    \/ DrawForStep
    \/ SteadyTrialStep
    \/ DrawnExpiryStep
    \/ DrawnProposalStep
    \/ FinishTrial
    \/ NextModel
    \/ AnalyzeResults

DriverSpec == DriverInit /\ [][DriverNext]_vars

(***************************************************************************)
(* The pure functions called on their own: _calculate_pricing and          *)
(* CapacityTracker.initialize_annual_capacity on a fresh tracker.          *)
(***************************************************************************)
\* largest total_annual_capacity tried unit by unit
MaxCapacityUnits == 40

PricingInputs ==
    [function : {"calculate_pricing"},
     variable_cost : {0, 1, 12, 100},
     units : {0, 4999, 5000, 9999, 10000, 20000, 20001, 24999, 25000,
              30000, 30001},
     model : Models,
     segment_id : {<<>>} \cup {<<segment>> : segment \in 1..8},
     market_leader_score : {0, 30, 100}]

CapacityInputs ==
    [function : {"initialize_annual_capacity"},
     total_annual_capacity : 0..MaxCapacityUnits \cup {2000000},
     complexity : ComplexityTiers \cup {"Extreme"}]

\* capacity-tracker states the allocation policy is called in
AllocationStates ==
    { [total_annual_capacity |-> 0,
       product_complexity |-> << "Very High", "High" >>,
       committed_capacity |-> << 0, 0 >>],
      [total_annual_capacity |-> 20000,
       product_complexity |-> << "Very High", "High" >>,
       committed_capacity |-> << 0, 0 >>],
      [total_annual_capacity |-> 2000000,
       product_complexity |-> << "Low", "Low" >>,
       committed_capacity |-> << 0, 0 >>],
      [total_annual_capacity |-> 2000000,
       product_complexity |-> << "Low", "Low" >>,
       committed_capacity |-> << 0, 498000 >>],
      [total_annual_capacity |-> 2000000,
       product_complexity |-> << "Low", "Low" >>,
       committed_capacity |-> << 0, 499500 >>] }

\* a large brand of each kind and a small one
ProfileIds == 1..3

AllocationInputs ==
    UNION { [function : {"macron_capacity_allocation"},
             brand : ProfileIds,
             desired_units : {1000, 5000, 60000, 200000},
             model : Models,
             state : AllocationStates,
             selected_products : {selected},
             splits : Splits(Len(selected))] : selected \in Selections(2) }

DistributionInputs ==
    UNION { UNION { [function : {"allocate_products_to_brand"},
                     n_products_total : {n},
                     total_units : {1000, 1001, 65000},
                     selected_products : {selected},
                     splits : Splits(Len(selected))] :
                    selected \in Selections(n) } : n \in {1, 2, 5} }

DemandInputs ==
    [function : {"calculate_brand_demand"},
     brand : ProfileIds,
     model : Models,
     jitter : JitterChoices]

FunctionInit ==
    /\ model = ModelOrder[1]
    /\ total_annual_capacity = 0
    /\ simulation_years = 1
    /\ product_complexity = <<>>
    /\ product_costs = <<>>
    /\ decision_speed = <<>>
    /\ annual_capacity = <<>>
    /\ committed_capacity = <<>>
    /\ month = 1
    /\ pc = "not started"
    /\ market_updates = 0
    /\ market_shocks = <<>>        \* "n_shocks" was drawn as 0
    /\ shock_index = 0
    /\ shocks_applied = <<>>
    /\ months_accrued = 0
    /\ month_revenue = 0
    /\ month_profit = 0
    /\ active_partnerships = <<>>
    /\ expiry_index = 1
    /\ partnerships_to_remove = <<>>
    /\ brand_index = 1
    /\ blocked_brands = {}
    /\ partner_brands = {}
    /\ partnerships_formed = 0
    /\ partnerships_rejected_capacity = 0
    /\ active_cobranded_count = 0
    /\ alloc_call = NoCall
    /\ n_simulations = 0
    /\ base_seed = 0
    /\ driver_pc = "not started"
    /\ runs_started = 0
    /\ model_index = 1
    /\ simulation_id = 0
    /\ results_count = <<0, 0>>
    /\ random_state = Unseeded
    /\ drawn = NoDraws
    /\ first_outcome = [key \in {} |-> 0]
    /\ function_input \in PricingInputs \cup CapacityInputs
                             \cup AllocationInputs \cup DistributionInputs
                             \cup DemandInputs
    /\ function_output = NotReturned

ApplyPricing ==
    /\ function_input.function = "calculate_pricing"
    /\ ~function_output.returned
    /\ function_output' =
           [returned |-> TRUE,
            price |-> calculate_pricing(
                          << function_input.variable_cost >>, 1,
                          function_input.units, function_input.model,
                          [segment_id |-> function_input.segment_id,
                           market_leader_score |->
                               function_input.market_leader_score])]
    /\ UNCHANGED << input_vars, function_input, model, annual_capacity,
                    trial_vars, driver_pc, runs_started, model_index,
                    simulation_id, results_count, random_state, drawn,
                    first_outcome >>

ApplyInitializeCapacity ==
    /\ function_input.function = "initialize_annual_capacity"
    /\ ~function_output.returned
    /\ function_output' =
           [returned |-> TRUE,
            annual_capacity |->
                initialize_annual_capacity(<< function_input.complexity >>,
                                           function_input.total_annual_capacity),
            committed_capacity |-> << 0 >>]
    /\ UNCHANGED << input_vars, function_input, model, annual_capacity,
                    trial_vars, driver_pc, runs_started, model_index,
                    simulation_id, results_count, random_state, drawn,
                    first_outcome >>

ApplyAllocation ==
    /\ function_input.function = "macron_capacity_allocation"
    /\ ~function_output.returned
    /\ LET state == function_input.state
           result == macron_capacity_allocation(
                         BrandProfiles[function_input.brand],
                         function_input.desired_units, function_input.model,
                         state.product_complexity, state.total_annual_capacity,
                         state.committed_capacity,
                         function_input.selected_products, function_input.splits)
       IN  function_output' =
               [returned |-> TRUE,
                units |-> result.units,
                allocation |-> result.allocation,
                availability |->
                    product_availability(state.product_complexity,
                                         state.total_annual_capacity,
                                         state.committed_capacity)]
    /\ UNCHANGED << input_vars, function_input, model, annual_capacity,
                    trial_vars, driver_pc, runs_started, model_index,
                    simulation_id, results_count, random_state, drawn,
                    first_outcome >>

ApplyAllocateProducts ==
    /\ function_input.function = "allocate_products_to_brand"
    /\ ~function_output.returned
    /\ function_output' =
           [returned |-> TRUE,
            allocation |->
                allocate_products_to_brand(
                    function_input.n_products_total, function_input.total_units,
                    function_input.selected_products, function_input.splits)]
    /\ UNCHANGED << input_vars, function_input, model, annual_capacity,
                    trial_vars, driver_pc, runs_started, model_index,
                    simulation_id, results_count, random_state, drawn,
                    first_outcome >>

ApplyDemand ==
    /\ function_input.function = "calculate_brand_demand"
    /\ ~function_output.returned
    /\ function_output' =
           [returned |-> TRUE,
            desired_units |->
                calculate_brand_demand(BrandProfiles[function_input.brand],
                                       function_input.model,
                                       function_input.jitter)]
    /\ UNCHANGED << input_vars, function_input, model, annual_capacity,
                    trial_vars, driver_pc, runs_started, model_index,
                    simulation_id, results_count, random_state, drawn,
                    first_outcome >>

FunctionNext ==
    \/ ApplyPricing
    \/ ApplyInitializeCapacity
    \/ ApplyAllocation
    \/ ApplyAllocateProducts
    \/ ApplyDemand

FunctionSpec == FunctionInit /\ [][FunctionNext]_vars

(***************************************************************************)
(* Properties                                                              *)
(***************************************************************************)
CallMade == alloc_call.caller # "none"

CallBrand == brand_agents[BrandNamed(alloc_call.brand_name)]

\* 20% of the total capacity available when the allocation policy was called
CallCapacityCap ==
    (SumSeq(alloc_call.availability) * MaxAllocationRatioPct) \div 100

DealsOf(brand_name) ==
    {k \in 1..Len(active_partnerships) :
        active_partnerships[k].brand_name = brand_name}

\* C1: after every commit and release and at the end of every month, every
\* product's committed capacity lies between 0 and its annual capacity, in
\* both model variants, for new deals and for renewals.
CapacityInvariant ==
    \A p \in product_list :
        0 <= committed_capacity[p] /\ committed_capacity[p] <= annual_capacity[p]

\* a grant has just been committed and fills a product to its ceiling
CapacityInvariantWitness ==
    /\ CallMade
    /\ alloc_call.units > 0
    /\ \E p \in product_list :
          /\ alloc_call.allocation[p] > 0
          /\ annual_capacity[p] > 0
          /\ committed_capacity[p] = annual_capacity[p]

\* C2: at the end of every month the units committed over all products do
\* not exceed the pool reserved for the new business model,
\* int(total_annual_capacity * new_model_allocation).
PoolNeverExceeded ==
    pc = "accrue" =>
        SumSeq(committed_capacity) <= get_available_capacity(total_annual_capacity)

\* C3: when a deal expires and is not renewed, the committed capacity of each
\* of its products decreases by exactly the units the deal holds, and no other
\* product's committed capacity changes.
ConservationOnExpiry ==
    [][ ( /\ pc = "expire"
          /\ expiry_index <= Len(active_partnerships)
          /\ active_partnerships[expiry_index].end_month = month
          /\ Len(active_partnerships') = Len(active_partnerships) )
        => \A p \in product_list :
              committed_capacity'[p] =
                  committed_capacity[p] - active_partnerships[expiry_index].products[p]
      ]_vars

\* a deal has expired without renewal while another deal still holds capacity
ConservationOnExpiryWitness ==
    /\ pc = "expire"
    /\ alloc_call.caller = "none"
    /\ \E j \in 1..Len(partnerships_to_remove) :
          /\ partnerships_to_remove[j] = expiry_index - 1
          /\ active_partnerships[expiry_index - 1].brand_name \in blocked_brands
    /\ \E p \in product_list : committed_capacity[p] > 0

\* the deals of the list whose capacity the running expiry loop has released
Released(k) ==
    /\ pc = "expire"
    /\ \E j \in 1..Len(partnerships_to_remove) : partnerships_to_remove[j] = k

\* C4: a deal created in month s with a duration of d months (s + d within
\* the horizon) has end_month = s + d, holds its capacity in every month from
\* s through s + d - 1 and is released in the expiry step of month s + d,
\* not before.
ReleasedExactlyAtEnd ==
    /\ [](\A k \in 1..Len(active_partnerships) :
            LET deal == active_partnerships[k]
            IN  IF Released(k)
                THEN month = deal.end_month
                ELSE /\ month <= deal.end_month
                     /\ \A p \in product_list :
                           committed_capacity[p] >= deal.products[p])
    /\ [][ Len(active_partnerships') = Len(active_partnerships) + 1
           => LET deal == active_partnerships'[Len(active_partnerships')]
              IN  \E d \in DurationChoices :
                     /\ deal.created_month = month
                     /\ deal.end_month = Min2(month + d, total_months)
                     /\ (month + d <= total_months => deal.end_month = month + d)
         ]_vars

\* a deal created 12 months ago has just been released, before the last month
ReleasedExactlyAtEndWitness ==
    /\ month < total_months
    /\ \E k \in 1..Len(active_partnerships) :
          /\ Released(k)
          /\ active_partnerships[k].created_month + 12 = month

\* C5: within every month the market update precedes the expiries, the
\* expiries precede the new proposals and the proposals precede the accrual:
\* when proposals are evaluated every deal due this month has been released
\* and removed, and no proposal of the month was committed before that.
MonthlyOrder ==
    /\ pc \in {"expire", "propose", "accrue", "done"}
          => market_updates = ((month - 1) \div 3) + 1
    /\ pc \in {"market", "expire"}
          => \A k \in 1..Len(active_partnerships) :
                ~( /\ active_partnerships[k].created_month = month
                   /\ ~active_partnerships[k].renewal )
    /\ pc \in {"propose", "accrue", "done"}
          => \A k \in 1..Len(active_partnerships) :
                active_partnerships[k].end_month = month
                    => ( /\ active_partnerships[k].created_month = month
                         /\ ~active_partnerships[k].renewal )
    /\ pc \in {"market", "expire", "propose", "accrue"}
          => months_accrued = month - 1
    /\ pc = "accrue" => brand_index > Len(brand_agents)

\* a new proposal is granted capacity in a month in which a deal expired
MonthlyOrderWitness ==
    /\ pc = "propose"
    /\ alloc_call.caller = "new"
    /\ alloc_call.units > 0
    /\ partnerships_to_remove # <<>>
    /\ Len(active_partnerships) > 0
    /\ active_partnerships[Len(active_partnerships)].created_month = month

\* C6: when no product has capacity available the allocation policy returns
\* (0, {}) and the capacity tracker is left as it was.
RejectionWhenExhausted ==
    ( /\ CallMade
      /\ \A p \in product_list : alloc_call.availability[p] = 0 )
    => /\ alloc_call.units = 0
       /\ \A p \in product_list :
             /\ alloc_call.allocation[p] = 0
             /\ committed_capacity[p] = annual_capacity[p] - alloc_call.availability[p]

\* the allocation policy has been called with nothing available
RejectionWhenExhaustedWitness ==
    /\ CallMade
    /\ \A p \in product_list : alloc_call.availability[p] = 0
    /\ alloc_call.desired_units >= MinViableOrder

\* C7: for a brand whose priority score does not exceed the boost threshold
\* the grant never exceeds 20% of the total capacity available at call time.
UnboostedGrantWithinCap ==
    ( CallMade /\ priority_score(CallBrand, model) <= BoostThreshold )
    => alloc_call.units <= CallCapacityCap

\* an unboosted brand asked for more than the cap and received the cap
UnboostedGrantWithinCapWitness ==
    /\ CallMade
    /\ priority_score(CallBrand, model) <= BoostThreshold
    /\ alloc_call.desired_units > CallCapacityCap
    /\ alloc_call.units = CallCapacityCap
    /\ alloc_call.units > 0

\* C8 (as claimed): the grant never exceeds the units the brand asked for.
GrantNeverAboveRequest ==
    CallMade => alloc_call.units <= alloc_call.desired_units

\* C8 (amended): the grant never exceeds the request for a brand whose
\* priority score does not exceed the boost threshold, and never exceeds
\* int(1.3 * request) for any brand.
GrantWithinBoostedRequest ==
    CallMade =>
       /\ priority_score(CallBrand, model) <= BoostThreshold
             => alloc_call.units <= alloc_call.desired_units
       /\ alloc_call.units <= (alloc_call.desired_units * BoostPct) \div 100

\* a boosted brand received more than it asked for
GrantWithinBoostedRequestWitness ==
    /\ CallMade
    /\ priority_score(CallBrand, model) > BoostThreshold
    /\ alloc_call.units > alloc_call.desired_units

\* C9: every (0, {}) returned by the allocation policy, to a new proposal or
\* to a renewal attempt, increases partnerships_rejected_capacity by one.
EveryRejectionCounted ==
    [][ ( alloc_call'.caller # "none" /\ alloc_call'.units = 0 )
        => partnerships_rejected_capacity' = partnerships_rejected_capacity + 1
      ]_vars

\* C10: a brand with a deal in the active set forms no further deal through
\* a new proposal; outside the expiry loop every brand has at most one deal
\* in the active set.
OneDealPerBrand ==
    pc # "expire" =>
        \A b \in BrandIds : Cardinality(DealsOf(brand_agents[b].brand_name)) <= 1

\* the proposal loop reaches, in a month of its decision frequency, a brand
\* that holds an active deal
OneDealPerBrandWitness ==
    /\ pc = "propose"
    /\ brand_index <= Len(brand_agents)
    /\ brand_agents[brand_index].brand_name \notin blocked_brands
    /\ month % decision_frequency(decision_speed[brand_index]) = 0
    /\ DealsOf(brand_agents[brand_index].brand_name) # {}

\* C11 (as claimed): a brand in the blocked set, with a month of its decision
\* frequency still ahead in the trial, eventually leaves the blocked set and
\* can propose again.
BlockedOnlyTemporarily ==
    \A b \in UNION {DOMAIN config.decision_speed : config \in Configurations} :
        ( /\ b \in BrandIds
          /\ brand_agents[b].brand_name \in blocked_brands
          /\ \E m \in (month + 1)..total_months :
                 m % decision_frequency(decision_speed[b]) = 0 )
        ~> ( brand_agents[b].brand_name \notin blocked_brands )

\* C11 (amended): no step of the trial removes a brand from the blocked set;
\* a blocked brand stays excluded from proposing until the trial ends.
BlockedForRestOfTrial ==
    [][ blocked_brands \subseteq blocked_brands' ]_vars

\* the proposal loop reaches, in a month of its decision frequency, a brand
\* without a deal that is skipped only because it is blocked
BlockedForRestOfTrialWitness ==
    /\ pc = "propose"
    /\ brand_index <= Len(brand_agents)
    /\ brand_agents[brand_index].brand_name \in blocked_brands
    /\ ~has_active(brand_agents[brand_index].brand_name)
    /\ month % decision_frequency(decision_speed[brand_index]) = 0

\* C12 (as claimed): every deal, new or renewed, starts in the month of its
\* creation and ends a whole number of years (12, 24 or 36 months) after its
\* start.
DealSpansWholeYears ==
    \A k \in 1..Len(active_partnerships) :
        LET deal == active_partnerships[k]
        IN  /\ deal.start_month = deal.created_month
            /\ \E duration \in DurationChoices :
                   deal.end_month = deal.start_month + duration

\* C12 (amended): a new deal starts in the month of its creation, a renewed
\* deal in the month after its renewal; both end a whole number of years
\* after the month of creation, or in the last month of the trial if that
\* comes first.
DealSpanClamped ==
    \A k \in 1..Len(active_partnerships) :
        LET deal == active_partnerships[k]
        IN  /\ deal.start_month =
                   IF deal.renewal THEN deal.created_month + 1
                   ELSE deal.created_month
            /\ \E duration \in DurationChoices :
                   deal.end_month =
                       Min2(deal.created_month + duration, total_months)
            /\ deal.end_month <= total_months

\* a renewed deal in the active set next to a new deal whose end was
\* clamped to the last month of the trial
DealSpanClampedWitness ==
    /\ \E k \in 1..Len(active_partnerships) :
          /\ active_partnerships[k].renewal
          /\ active_partnerships[k].start_month = active_partnerships[k].created_month + 1
    /\ \E k \in 1..Len(active_partnerships) :
          /\ ~active_partnerships[k].renewal
          /\ active_partnerships[k].end_month = total_months
          /\ active_partnerships[k].end_month
                 < active_partnerships[k].created_month + MonthsPerYear

\* C13: the revenue and the profit accrued for a month are the sums of
\* monthly_revenue and monthly_profit over all deals that are in the active
\* set, holding committed capacity, at the accrual step of that month.
AccrualCoversActiveSet ==
    [][ pc = "accrue" =>
          /\ month_revenue' =
                 SumSeq([k \in 1..Len(active_partnerships) |->
                            active_partnerships[k].monthly_revenue])
          /\ month_profit' =
                 SumSeq([k \in 1..Len(active_partnerships) |->
                            active_partnerships[k].monthly_profit])
      ]_vars

\* C15: every deal, new or renewed, has monthly_profit <= monthly_revenue
\* (variable costs and units are never negative).
ProfitWithinRevenue ==
    \A k \in 1..Len(active_partnerships) :
        active_partnerships[k].monthly_profit
            <= active_partnerships[k].monthly_revenue

\* a renewed deal with a positive cost of goods stands in the active set
ProfitWithinRevenueWitness ==
    \E k \in 1..Len(active_partnerships) :
        /\ active_partnerships[k].renewal
        /\ active_partnerships[k].monthly_revenue > 0
        /\ active_partnerships[k].monthly_profit
               < active_partnerships[k].monthly_revenue

\* C14: a trial run again with the same seed, model variant and configuration
\* ends in the state its first execution ended in, whatever trials ran in
\* between.
SameSeedSameOutcome ==
    ( /\ driver_pc = "trial"
      /\ pc = "done"
      /\ TrialKey \in DOMAIN first_outcome )
    => first_outcome[TrialKey] = Outcome

\* a trial that formed a deal and blocked a brand has ended a second time,
\* in the second call of run_simulation
SameSeedSameOutcomeWitness ==
    /\ driver_pc = "trial"
    /\ pc = "done"
    /\ TrialKey \in DOMAIN first_outcome
    /\ runs_started = 2
    /\ partnerships_formed > 0
    /\ blocked_brands # {}

\* C18: run_simulation with n_simulations = 0 returns or is rejected before
\* any trial or aggregation; it never fails inside analyze_results.
NoFailureInAnalysis ==
    driver_pc # "KeyError"

\* C16: for every variable_cost >= 0, units >= 0, model variant, primary
\* segment and market_leader_score in [0, 1], the unit price returned by
\* _calculate_pricing is at least the variable_cost.
PriceAtLeastCost ==
    ( /\ function_input.function = "calculate_pricing"
      /\ function_output.returned )
    => function_output.price >= function_input.variable_cost * 10000

\* the price of the deepest white-label volume discount and the price of the
\* deepest co-branded one have been computed for a product that costs
\* something
PriceAtLeastCostWitness ==
    /\ function_input.function = "calculate_pricing"
    /\ function_output.returned
    /\ function_input.variable_cost > 0
    /\ \/ function_input.model = "white-label" /\ function_input.units >= 25000
       \/ function_input.model = "co-branded" /\ function_input.units > 30000
    /\ function_output.price < function_input.variable_cost * 12500

\* floor(total * new_model_allocation * share), a single floor of the product
SingleFloor(total, share) ==
    ( (total \div 100) * NewModelAllocationPct * share
      + ((total % 100) * NewModelAllocationPct * share) \div 100 ) \div 100

\* C17 (as claimed): after initialization a product's annual_capacity is the
\* single floor of total_annual_capacity * new_model_allocation * share of
\* its tier, and its committed_capacity is 0.
CapacityIsSingleFloor ==
    ( /\ function_input.function = "initialize_annual_capacity"
      /\ function_input.complexity \in ComplexityTiers
      /\ function_output.returned )
    => /\ function_output.annual_capacity[1] =
              SingleFloor(function_input.total_annual_capacity,
                          complexity_max_share(function_input.complexity))
       /\ function_output.committed_capacity[1] = 0

\* C17 (amended): the pool is floored first and the share of the floored
\* pool is floored again; the result is the single floor or one unit less,
\* and committed_capacity is 0.
CapacityIsDoubleFloor ==
    ( /\ function_input.function = "initialize_annual_capacity"
      /\ function_input.complexity \in ComplexityTiers
      /\ function_output.returned )
    => LET total == function_input.total_annual_capacity
           share == complexity_max_share(function_input.complexity)
           pool == (total * NewModelAllocationPct) \div 100
           capacity == function_output.annual_capacity[1]
       IN  /\ capacity = (pool * share) \div 100
           /\ capacity <= SingleFloor(total, share)
           /\ capacity >= SingleFloor(total, share) - 1
           /\ function_output.committed_capacity[1] = 0

\* the tracker was initialized for a capacity whose two floors lose a unit
CapacityIsDoubleFloorWitness ==
    /\ function_input.function = "initialize_annual_capacity"
    /\ function_input.complexity \in ComplexityTiers
    /\ function_output.returned
    /\ function_output.annual_capacity[1]
           < SingleFloor(function_input.total_annual_capacity,
                         complexity_max_share(function_input.complexity))

\* C19: a configuration with a product whose complexity tier is not a key of
\* complexity_max_share is rejected at trial start: no month of the trial is
\* simulated.
InvalidConfigurationRejected ==
    ( \E p \in product_list : product_complexity[p] \notin ComplexityTiers )
    => ( pc = "market" /\ month = 1 /\ market_updates = 0 )

\* C20 (as stated): a brand is added to the blocked set only by a renewal
\* that was attempted through the allocation policy and not granted.
BlockedOnlyAfterRefusedRenewal ==
    [][ blocked_brands' # blocked_brands
        => ( alloc_call'.caller = "renewal" /\ alloc_call'.units = 0 ) ]_vars

\* C20 (amended): a brand is added to the blocked set exactly by the expiry
\* of one of its deals that is not renewed, whether the renewal draw failed
\* or the allocation policy granted nothing; a renewed deal blocks nobody.
BlockedWhenNotRenewed ==
    [][ /\ blocked_brands' # blocked_brands
            => /\ pc = "expire"
               /\ expiry_index <= Len(active_partnerships)
               /\ active_partnerships[expiry_index].end_month = month
               /\ blocked_brands' = blocked_brands
                      \cup {active_partnerships[expiry_index].brand_name}
               /\ active_partnerships' = active_partnerships
        /\ ( /\ pc = "expire"
             /\ expiry_index <= Len(active_partnerships)
             /\ expiry_index' = expiry_index + 1
             /\ active_partnerships[expiry_index].end_month = month )
            => ( active_partnerships[expiry_index].brand_name \in blocked_brands'
                 <=> active_partnerships' = active_partnerships ) ]_vars

\* the expiry loop has just blocked a brand whose deal ended without any
\* call to the allocation policy
BlockedWhenNotRenewedWitness ==
    /\ pc = "expire"
    /\ expiry_index > 1
    /\ active_partnerships[expiry_index - 1].end_month = month
    /\ active_partnerships[expiry_index - 1].brand_name \in blocked_brands
    /\ alloc_call = NoCall
    /\ Cardinality(blocked_brands) = 1

ReturnIsRejectionOrViableGrant ==
    ( function_input.function = "macron_capacity_allocation"
      /\ function_output.returned )
    => LET allocation == function_output.allocation
       IN  \/ /\ function_output.units = 0
              /\ \A p \in DOMAIN allocation : allocation[p] = 0
           \/ /\ function_output.units >= MinViableOrder
              /\ function_output.units = SumSeq(allocation)
              /\ \A p \in DOMAIN allocation :
                    /\ allocation[p] >= 0
                    /\ allocation[p] <= function_output.availability[p]

\* a grant one of whose slices was cut down to what its product had left
ReturnIsRejectionOrViableGrantWitness ==
    /\ function_input.function = "macron_capacity_allocation"
    /\ function_output.returned
    /\ function_output.units >= MinViableOrder
    /\ function_output.units < function_input.desired_units
    /\ \E p \in DOMAIN function_output.allocation :
          /\ function_output.allocation[p] > 0
          /\ function_output.allocation[p] = function_output.availability[p]

\* C24: _allocate_products_to_brand returns an allocation over between 1
\* and 4 products whose units sum to exactly total_units, whatever the
\* random draw.
DistributionConservesUnits ==
    ( function_input.function = "allocate_products_to_brand"
      /\ function_output.returned )
    => LET allocation == function_output.allocation
           products == {p \in DOMAIN allocation : allocation[p] > 0}
       IN  /\ SumSeq(allocation) = function_input.total_units
           /\ Cardinality(products) >= 1
           /\ Cardinality(products) <= MaxProductsPerDeal

\* C25: the desired unit count of the demand estimator lies within the
\* configured band [min_units_per_product, max_units_per_product].
DemandWithinConfiguredBand ==
    ( function_input.function = "calculate_brand_demand"
      /\ function_output.returned )
    => /\ function_output.desired_units >= MinUnitsPerProduct
       /\ function_output.desired_units <= MaxUnitsPerProduct

\* C21: in a co-branded trial a brand of primary segment 1, 2 or 3 with a
\* revenue below 100 (millions) and a grant of at most 20,000 units never
\* has a new deal formed while 20 or more co-branded deals are in the
\* active set, the deals formed earlier in the same month included.
TechnicalCapCountsLiveDeals ==
    ( /\ model = "co-branded"
      /\ alloc_call.caller = "new"
      /\ alloc_call.units > 0
      /\ alloc_call.units <= HighVolumeOverride
      /\ PrimarySegment(CallBrand) \in {1, 2, 3}
      /\ CallBrand.annual_revenue_millions < HighRevenueMillions
      /\ active_partnerships # <<>>
      /\ LET formed == active_partnerships[Len(active_partnerships)]
         IN  /\ formed.brand_name = alloc_call.brand_name
             /\ formed.created_month = month
             /\ ~formed.renewal )
    => Len(active_partnerships) - 1 < TechnicalCobrandedLimit


HeldUnits(p) ==
    SumSeq([k \in 1..Len(active_partnerships) |->
               active_partnerships[k].products[p]])

OneNewPartnershipPerBrand ==
    /\ partnerships_formed = Cardinality(partner_brands)
    /\ partnerships_formed <= Len(brand_agents)
    /\ pc # "expire"
       => \A b \in BrandIds :
             brand_agents[b].brand_name \in partner_brands
             => \/ brand_agents[b].brand_name \in blocked_brands
                \/ has_active(brand_agents[b].brand_name)

\* both brands have formed their one partnership; one of them has lost its
\* deal, is blocked and passes a decision month without proposing again
OneNewPartnershipPerBrandWitness ==
    /\ pc = "propose"
    /\ brand_index > Len(brand_agents)
    /\ partnerships_formed = 2
    /\ \E b \in BrandIds :
          /\ brand_agents[b].brand_name \in partner_brands
          /\ brand_agents[b].brand_name \in blocked_brands
          /\ DealsOf(brand_agents[b].brand_name) = {}
          /\ month % decision_frequency(decision_speed[b]) = 0

\* the deals left in the active set were all newly formed in the final month
OnlyFinalMonthDealsLeft ==
    \A k \in 1..Len(active_partnerships) :
        /\ active_partnerships[k].created_month = total_months
        /\ ~active_partnerships[k].renewal

\* C28: every deal created before the final month is eventually expired,
\* no later than the expiry step of the final month: the trial comes to its
\* end with only deals newly formed in the final month in the active set
\* and with no capacity committed beyond what those deals hold.
DealsExpireByFinalMonth ==
    ( active_partnerships # <<>> /\ month < total_months )
    ~> ( /\ pc = "done"
         /\ OnlyFinalMonthDealsLeft
         /\ \A p \in product_list : committed_capacity[p] = HeldUnits(p) )

\* the trial has ended after expiring, in its final month, a deal made
\* earlier, and a deal formed in the final month is left
DealsExpireByFinalMonthWitness ==
    /\ pc = "done"
    /\ blocked_brands # {}
    /\ active_partnerships # <<>>
    /\ \A p \in product_list : committed_capacity[p] = HeldUnits(p)

\* C29: a deal created by renewal in a month is never expired in that same
\* month: the expiry step visits only the deals that were active when it
\* began, in every month including the final one.
RenewalNotExpiredInItsMonth ==
    [][ ( /\ pc = "expire"
          /\ expiry_index <= Len(active_partnerships)
          /\ expiry_index' = expiry_index + 1
          /\ active_partnerships[expiry_index].end_month = month )
        => ~( /\ active_partnerships[expiry_index].renewal
              /\ active_partnerships[expiry_index].created_month = month ) ]_vars


\* C30: over a horizon of at least 18 months every market shock generated
\* for the trial is applied exactly once, in a quarterly month (1, 4, 7, ...)
\* not earlier than the month it is scheduled for, after that month's market
\* update, and in non-decreasing order of scheduled month; when the trial
\* has ended no generated shock is left unapplied.
ShocksAppliedOnceInOrder ==
    total_months >= 18 =>
        /\ Len(shocks_applied) = shock_index
        /\ shock_index <= Len(market_shocks)
        /\ \A k \in 1..Len(shocks_applied) :
              /\ shocks_applied[k].shock \in
                     {market_shocks[j] : j \in 1..Len(market_shocks)}
              /\ (shocks_applied[k].month - 1) % 3 = 0
              /\ shocks_applied[k].month >= shocks_applied[k].shock.month
              /\ shocks_applied[k].month <= month
              /\ shocks_applied[k].market_updates =
                     ((shocks_applied[k].month - 1) \div 3) + 1
        /\ \A k, l \in 1..Len(shocks_applied) :
              k < l =>
                 /\ shocks_applied[k].shock # shocks_applied[l].shock
                 /\ shocks_applied[k].shock.month <= shocks_applied[l].shock.month
                 /\ shocks_applied[k].month <= shocks_applied[l].month
        /\ pc = "done" =>
              \A j \in 1..Len(market_shocks) :
                 \E k \in 1..Len(shocks_applied) :
                    shocks_applied[k].shock = market_shocks[j]

\* the trial has ended with two shocks applied that were drawn latest month
\* first, one of them in a later month than the one it was scheduled for
ShocksAppliedOnceInOrderWitness ==
    /\ pc = "done"
    /\ total_months >= 18
    /\ Len(shocks_applied) = 2
    /\ shocks_applied[1].shock.draw = 2
    /\ shocks_applied[1].shock.month < shocks_applied[2].shock.month
    /\ shocks_applied[1].month > shocks_applied[1].shock.month
    /\ shocks_applied[2].month > shocks_applied[1].month

====
